---- MODULE Spec2Model ----
(***************************************************************************)
(* Model of the rico runtime (rico.hpp as inlined in src/life.cpp):        *)
(* HardwareButton, Button, the GameEngine singleton and the frame loop     *)
(* GameEngine::Run<C>.                                                     *)
(***************************************************************************)
EXTENDS Integers, Sequences, FiniteSets, TLC

(***************************************************************************)
(* Bounds of the exploration.                                              *)
(***************************************************************************)
MaxFrames == 2

MaxEvents == 2

MaxRuns == 2

MaxConstructs == 2

(***************************************************************************)
(* Program and library constants.                                          *)
(***************************************************************************)
LEFT == 1

RIGHT == 2

first_index == 1

last_index == 2

first_key == 97

last_key == 122

index_count == last_index - first_index + 1

key_count == last_key - first_key + 1

SDL_BUTTON_LEFT == 1

SDL_BUTTON_RIGHT == 3

EXIT_SUCCESS == 0

EXIT_FAILURE == 1

\* key codes fed to the loop: 'q', 'A', the letter "u with double acute"
\* (0x171) and SDLK_F22 (0x40000071)
KeySyms == {113, 65, 369, 1073741937}

\* SDL mouse button numbers fed to the loop: middle (not tracked) and right
MouseButtons == {2, 3}

Events ==
    {[type |-> "SDL_QUIT", code |-> 0]}
    \cup [type : {"SDL_KEYDOWN", "SDL_KEYUP"}, code : KeySyms]
    \cup [type : {"SDL_MOUSEBUTTONDOWN", "SDL_MOUSEBUTTONUP"}, code : MouseButtons]

\* key codes given to the key cases of the input step on their own: letters
\* and their neighbours, and codes whose low byte is a letter or a neighbour
\* of one: 0x161, 0x171, 0x17A, and the keypad and function keys 0x40000060
\* (SDLK_KP_8), 0x40000061 (SDLK_KP_9), 0x40000071 (SDLK_F22), 0x4000007A
\* (SDLK_UNDO), 0x4000007B (SDLK_CUT)
KeyCodes == {0, 48, 65, 96, 97, 113, 122, 123, 353, 369, 378,
             1073741920, 1073741921, 1073741937, 1073741946, 1073741947}

KeyEvents == [type : {"SDL_KEYDOWN", "SDL_KEYUP"}, code : KeyCodes]

\* arguments given to Construct
ConstructArgs == {<<640, 480, 10>>, <<320, 240, 20>>, <<100, 100, 0>>, <<100, 101, 10>>}

\* the step of Construct at which the backend fails, if any
ConstructFailures ==
    {"none", "SDL_Init", "SDL_CreateWindow", "SDL_CreateRenderer", "SDL_CreateTexture", "malloc"}

(***************************************************************************)
(* HardwareButton                                                          *)
(***************************************************************************)
HardwareButton == [pressed |-> FALSE, down |-> FALSE, released |-> FALSE, previous |-> FALSE]


\* update() without the comparison of down and previous
update_no_compare(b) ==
    [pressed  |-> b.down,
     down     |-> b.down,
     released |-> ~b.down,
     previous |-> b.down]

\* update() that forgets to remember down
update_keeps_previous(b) ==
    [pressed  |-> (b.down /= b.previous) /\ b.down,
     down     |-> b.down,
     released |-> (b.down /= b.previous) /\ ~b.down,
     previous |-> b.previous]

update(b) ==
    [pressed  |-> (b.down /= b.previous) /\ b.down,
     down     |-> b.down,
     released |-> (b.down /= b.previous) /\ ~b.down,
     previous |-> b.down]

(***************************************************************************)
(* Button: tagged union of a mouse index (uint8_t) and a key (char)        *)
(***************************************************************************)
ButtonMouse(i) == [tag |-> "MOUSE", val |-> i]

ButtonKey(c) == [tag |-> "KEYBOARD", val |-> c]

\* every Button: a mouse index (uint8_t) or a key (char, signed or unsigned)
Buttons == {ButtonMouse(i) : i \in 0 .. 255} \cup {ButtonKey(c) : c \in -128 .. 255}

\* static_cast<char>(SDL_Keycode): keeps the low 8 bits, read as signed
to_char(sym) ==
    LET m == sym % 256 IN IF m >= 128 THEN m - 256 ELSE m

\* valid() without the upper bound of the mouse range
valid_no_last_index(button) ==
    IF button.tag = "MOUSE"
    THEN IF first_index <= button.val
         THEN <<TRUE, button.val - first_index>>
         ELSE <<FALSE, -1>>
    ELSE IF first_key <= button.val /\ button.val <= last_key
         THEN <<TRUE, button.val - first_key>>
         ELSE <<FALSE, -1>>

\* <<return value, *output>>; the output is left unwritten (-1) on false
valid(button) ==
    IF button.tag = "MOUSE"
    THEN IF first_index <= button.val /\ button.val <= last_index
         THEN <<TRUE, button.val - first_index>>
         ELSE <<FALSE, -1>>
    ELSE IF first_key <= button.val /\ button.val <= last_key
         THEN <<TRUE, button.val - first_key>>
         ELSE <<FALSE, -1>>

\* the Button built from an event by the input step of Run
EventButton(ev) ==
    IF ev.type \in {"SDL_KEYDOWN", "SDL_KEYUP"}
    THEN ButtonKey(to_char(ev.code))
    ELSE IF ev.type \in {"SDL_MOUSEBUTTONDOWN", "SDL_MOUSEBUTTONUP"}
    THEN IF ev.code = SDL_BUTTON_RIGHT THEN ButtonMouse(RIGHT)
         ELSE IF ev.code = SDL_BUTTON_LEFT THEN ButtonMouse(LEFT)
         ELSE ButtonKey(0)
    ELSE ButtonKey(0)

EventDown(ev) == ev.type \in {"SDL_KEYDOWN", "SDL_MOUSEBUTTONDOWN"}

(***************************************************************************)
(* State                                                                   *)
(***************************************************************************)
\* the engine's members, the locals of Run, and history variables (obs,
\* upd_count, frame_down, q_phase, q_events) that only record what happened
VARIABLES
    init, window_width, window_height, texture_width, texture_height, pixel_size,
    mouse_state, keyboard_state,
    pc, end, status, retval, app, polled, frame, runs, constructs,
    obs, upd_count, frame_down, q_phase, q_events

\* the SDL handles held by the engine (0 is NULL), the raster `data`, and the
\* world they point into: is the backend initialised, the live native
\* objects, the live malloc blocks, the pixels written into the raster
VARIABLES
    window, renderer, texture, data, sdl, native, heap, pixels

\* history of the last lifecycle call: its backend calls in order, and its
\* arguments and result
VARIABLES
    call_log, last_call

\* the argument handed to an operation that is exercised on its own, and
\* what the operation answered
VARIABLES
    probe, answer

\* the last array access made by the input step of Run while it drains the
\* queue: the array, the index and the Button the index was derived from
VARIABLES
    access

engineVars == <<init, window_width, window_height, texture_width, texture_height, pixel_size>>

buttonVars == <<mouse_state, keyboard_state>>

runVars == <<pc, end, status, retval, app, polled, frame, runs>>

ghostVars == <<obs, upd_count, frame_down, q_phase, q_events>>

handleVars == <<window, renderer, texture, data>>

worldVars == <<sdl, native, heap, pixels>>

lifeVars == <<handleVars, worldVars, call_log, last_call>>

probeVars == <<probe, answer>>

vars == <<engineVars, buttonVars, runVars, constructs, ghostVars, lifeVars, probeVars, access>>

MouseIdx == 0 .. (index_count - 1)

KeyIdx == 0 .. (key_count - 1)

\* what one run of Run has done so far
NoCalls ==
    [ctor |-> 0, OnUserCreate |-> 0, OnUserUpdate |-> 0, OnUserDestroy |-> 0,
     deleted |-> 0, present |-> 0, debounce |-> 0,
     not_ready |-> FALSE, purge_quit |-> FALSE, create_failed |-> FALSE,
     update_threw |-> FALSE, update_stop |-> FALSE, present_failed |-> FALSE,
     loop_quit |-> FALSE,
     drained |-> FALSE, updated |-> FALSE]

FreshDown == [mouse |-> [i \in MouseIdx |-> <<FALSE, FALSE>>],
              keys  |-> [i \in KeyIdx |-> <<FALSE, FALSE>>]]

\* Tmat2D(void): no rows, no columns, no buffer
Tmat2D == [rows |-> 0, cols |-> 0, ptr |-> 0]

NoCall == [op |-> "none", args |-> <<0, 0, 0>>, fail |-> "none", ret |-> 0,
           was_init |-> FALSE, dirty |-> FALSE,
           pos |-> <<0, 0>>, color |-> <<0, 0, 0>>, has_output |-> FALSE]

NoUpdates == [mouse |-> [i \in MouseIdx |-> 0], keys |-> [i \in KeyIdx |-> 0]]

NoAccess == [array |-> "none", index |-> -1, button |-> ButtonKey(0)]

NoAnswer == [called |-> FALSE, ret |-> FALSE, index |-> -1]

\* the engine before the first Construct, no run started
InitEngine ==
    /\ init = FALSE
    /\ window_width = 0 /\ window_height = 0
    /\ texture_width = 0 /\ texture_height = 0
    /\ pixel_size = 0
    /\ mouse_state = [i \in MouseIdx |-> HardwareButton]
    /\ keyboard_state = [i \in KeyIdx |-> HardwareButton]
    /\ pc = "idle"
    /\ end = FALSE
    /\ status = EXIT_SUCCESS
    /\ retval = -1
    /\ app = "unset"
    /\ polled = 0
    /\ frame = 0
    /\ runs = 0
    /\ constructs = 0
    /\ obs = NoCalls
    /\ upd_count = NoUpdates
    /\ frame_down = FreshDown
    /\ q_phase = "fresh"
    /\ q_events = "none"
    /\ window = 0 /\ renderer = 0 /\ texture = 0
    /\ data = Tmat2D
    /\ sdl = FALSE
    /\ native = {}
    /\ heap = {}
    /\ pixels = <<>>
    /\ call_log = <<>>
    /\ last_call = NoCall
    /\ access = NoAccess

Init ==
    /\ InitEngine
    /\ probe = ButtonKey(0)
    /\ answer = NoAnswer


(***************************************************************************)
(* GameEngine::Construct and GameEngine::~GameEngine                       *)
(***************************************************************************)
\* checks that forget the window height
ConstructInvalid_ignores_height(w, h, p) ==
    IF p = 0 THEN "invalid pixel_size"
    ELSE IF w % p /= 0 THEN "invalid window_width"
    ELSE ""

\* the checks made before any backend call; "" when they pass
ConstructInvalid(w, h, p) ==
    IF p = 0 THEN "invalid pixel_size"
    ELSE IF w % p /= 0 THEN "invalid window_width"
    ELSE IF h % p /= 0 THEN "invalid window_height"
    ELSE ""

\* a try block that does not look at the results of the backend
ConstructSucceeds_ignores_backend(w, h, p, fail) == ConstructInvalid(w, h, p) = ""

\* does the call reach the end of the try block
ConstructSucceeds(w, h, p, fail) == ConstructInvalid(w, h, p) = "" /\ fail = "none"

\* the backend acquisitions of Construct, in the order of the try block
Acquisitions == <<"SDL_Init", "SDL_CreateWindow", "SDL_CreateRenderer", "SDL_CreateTexture", "malloc">>

\* does acquisition number k of the try block succeed
Acquired(w, h, p, fail, k) ==
    /\ ConstructInvalid(w, h, p) = ""
    /\ \A j \in 1 .. k : Acquisitions[j] /= fail

\* the native objects the engine's handles point to
Held == {<<"window", window>>, <<"renderer", renderer>>, <<"texture", texture>>}

\* ~GameEngine: the calls of the body, then the destruction of the member
\* data, which frees its buffer
DestructorCalls ==
    (IF init
     THEN <<"SDL_DestroyTexture", "SDL_DestroyRenderer", "SDL_DestroyWindow",
            "SDL_QuitSubSystem", "SDL_Quit">>
     ELSE <<>>)
    \o (IF data.ptr /= 0 THEN <<"free">> ELSE <<>>)

DestructorNative == IF init THEN native \ Held ELSE native

DestructorSdl == IF init THEN FALSE ELSE sdl

\* a destructor that keeps the raster buffer
DestructorHeap_keeps_buffer == heap

DestructorHeap == heap \ {data.ptr}

\* is some button not in the state of a new HardwareButton
Dirty ==
    \/ \E i \in MouseIdx : mouse_state[i] /= HardwareButton
    \/ \E i \in KeyIdx : keyboard_state[i] /= HardwareButton

\* loops that leave the buttons as they are
ButtonReset_keeps(state) == state

\* the loops of lines 673-678 over one button array
ButtonReset(state) == [i \in DOMAIN state |-> HardwareButton]

Construct(w, h, p, fail) ==
    /\ pc \in {"idle", "returned"}
    /\ constructs < MaxConstructs
    /\ constructs' = constructs + 1
    /\ mouse_state' = ButtonReset(mouse_state)
    /\ keyboard_state' = ButtonReset(keyboard_state)
    /\ IF ConstructInvalid(w, h, p) = ""
       THEN /\ window_width' = w
            /\ window_height' = h
            /\ pixel_size' = p
            /\ texture_width' = w \div p
            /\ texture_height' = h \div p
       ELSE UNCHANGED <<window_width, window_height, pixel_size, texture_width, texture_height>>
    /\ init' = ConstructSucceeds(w, h, p, fail)
    /\ LET id == constructs + 1
           ok(k) == Acquired(w, h, p, fail, k)
       IN  /\ sdl' = IF ok(1) THEN TRUE ELSE IF init THEN DestructorSdl ELSE sdl
           /\ window' = IF ok(2) THEN id ELSE 0
           /\ renderer' = IF ok(3) THEN id ELSE 0
           /\ texture' = IF ok(4) THEN id ELSE 0
           /\ native' = (IF init THEN DestructorNative ELSE native)
                        \cup (IF ok(2) THEN {<<"window", id>>} ELSE {})
                        \cup (IF ok(3) THEN {<<"renderer", id>>} ELSE {})
                        \cup (IF ok(4) THEN {<<"texture", id>>} ELSE {})
           /\ data' = IF ok(5) THEN [rows |-> h \div p, cols |-> w \div p, ptr |-> id] ELSE data
           /\ heap' = (IF init THEN DestructorHeap ELSE heap)
                      \cup (IF ok(5) THEN {id} ELSE {})
           /\ pixels' = IF init \/ ok(5) THEN <<>> ELSE pixels
           /\ call_log' = (IF init THEN DestructorCalls ELSE <<>>)
                          \o SelectSeq(Acquisitions,
                                       LAMBDA c : \E k \in 1 .. 5 : Acquisitions[k] = c /\ ok(k))
    /\ last_call' = [NoCall EXCEPT
                     !.op = "Construct", !.args = <<w, h, p>>,
                     !.fail = IF ConstructInvalid(w, h, p) /= ""
                              THEN ConstructInvalid(w, h, p) ELSE fail,
                     !.ret = IF ConstructSucceeds(w, h, p, fail) THEN 0 ELSE -1,
                     !.was_init = init, !.dirty = Dirty]
    /\ frame_down' = FreshDown
    /\ q_phase' = "fresh"
    /\ q_events' = "none"
    /\ UNCHANGED <<runVars, obs, upd_count, probeVars, access>>

\* ~Tmat2D would free a buffer that is not live: a second free of the same
\* block, which the allocator may report by aborting or let pass
DoubleFree == data.ptr /= 0 /\ data.ptr \notin heap

\* the destruction of the static instance when the process exits
Exit ==
    /\ pc \in {"idle", "returned"}
    /\ pc' \in (IF DoubleFree THEN {"exited", "aborted"} ELSE {"exited"})
    /\ init' = FALSE
    /\ sdl' = DestructorSdl
    /\ native' = DestructorNative
    /\ heap' = DestructorHeap
    /\ pixels' = <<>>
    /\ call_log' = DestructorCalls
    /\ last_call' = [NoCall EXCEPT !.op = "Exit", !.was_init = init]
    /\ UNCHANGED <<window_width, window_height, texture_width, texture_height, pixel_size,
                   buttonVars, end, status, retval, app, polled, frame, runs, constructs,
                   ghostVars, handleVars, probeVars, access>>

\* GetWidth that answers in window pixels
GetWidth_window == IF init THEN window_width ELSE 0

GetWidth == IF init THEN texture_width ELSE 0

GetHeight == IF init THEN texture_height ELSE 0

\* 32-bit values that may exceed 2^31 are written as their four bytes, least
\* significant first
ToBytes(n) == <<n % 256, (n \div 256) % 256, (n \div 65536) % 256, (n \div 16777216) % 256>>

\* a * b in uint32_t arithmetic: the low four bytes of the product
MulU32(a, b) ==
    LET t1 == a[1] * b[1]
        t2 == a[1] * b[2] + a[2] * b[1] + (t1 \div 256)
        t3 == a[1] * b[3] + a[2] * b[2] + a[3] * b[1] + (t2 \div 256)
        t4 == a[1] * b[4] + a[2] * b[3] + a[3] * b[2] + a[4] * b[1] + (t3 \div 256)
    IN  <<t1 % 256, t2 % 256, t3 % 256, t4 % 256>>

\* a + b without wraparound (pointer arithmetic): five bytes
AddWide(a, b) ==
    LET u1 == a[1] + b[1]
        u2 == a[2] + b[2] + (u1 \div 256)
        u3 == a[3] + b[3] + (u2 \div 256)
        u4 == a[4] + b[4] + (u3 \div 256)
    IN  <<u1 % 256, u2 % 256, u3 % 256, u4 % 256, u4 \div 256>>

\* x < y for two numbers written with the same number of bytes
LessBytes(x, y) ==
    \E k \in 1 .. Len(x) : x[k] < y[k] /\ \A j \in (k + 1) .. Len(x) : x[j] = y[j]

\* a + b in uint32_t arithmetic
AddU32(a, b) == SubSeq(AddWide(a, b), 1, 4)

\* rgba >>= 8
Shr8(w) == <<w[2], w[3], w[4], 0>>

\* Color::operator uint32_t, for a colour <<r, g, b>>: 255, then += of
\* (1 << 24) * r, (1 << 16) * g and (1 << 8) * b; the products are taken
\* modulo 2^32 (an int product that wraps, converted to uint32_t by +=)
ColorToU32(c) ==
    LET w0 == ToBytes(255)
        w1 == AddU32(w0, MulU32(ToBytes(16777216), ToBytes(c[1])))
        w2 == AddU32(w1, MulU32(ToBytes(65536), ToBytes(c[2])))
    IN  AddU32(w2, MulU32(ToBytes(256), ToBytes(c[3])))

\* a constructor that reads the blue channel before the first shift
U32ToColor_no_first_shift(w) ==
    LET s1 == Shr8(w)
        s2 == Shr8(s1)
    IN  <<s2[1] % 256, s1[1] % 256, w[1] % 256>>

\* Color::Color(uint32_t): the colour <<r, g, b>> of a word
U32ToColor(w) ==
    LET s1 == Shr8(w)
        s2 == Shr8(s1)
        s3 == Shr8(s2)
    IN  <<s3[1] % 256, s2[1] % 256, s1[1] % 256>>

\* Tmat2D::operator[](Position) and Row::operator[]: is <<x, y>> inside data
InRaster(pos) == pos[2] < data.rows /\ pos[1] < data.cols

\* SetPixel that writes to the transposed position
SetPixelEffect_transposed(pos, color) ==
    IF init
    THEN IF InRaster(pos)
         THEN [raises |-> FALSE, pixels |-> (<<pos[2], pos[1]>> :> ColorToU32(color)) @@ pixels]
         ELSE [raises |-> TRUE, pixels |-> pixels]
    ELSE [raises |-> FALSE, pixels |-> pixels]

\* SetPixel without the test of init
SetPixelEffect_unguarded(pos, color) ==
    IF InRaster(pos)
    THEN [raises |-> FALSE, pixels |-> (pos :> ColorToU32(color)) @@ pixels]
    ELSE [raises |-> TRUE, pixels |-> pixels]

\* SetPixel(pos, color): does it raise out_of_range, and the pixels after it
SetPixelEffect(pos, color) ==
    IF init
    THEN IF InRaster(pos)
         THEN [raises |-> FALSE, pixels |-> (pos :> ColorToU32(color)) @@ pixels]
         ELSE [raises |-> TRUE, pixels |-> pixels]
    ELSE [raises |-> FALSE, pixels |-> pixels]

\* GetPixel(pos, output): the return value and whether it raises out_of_range
GetPixel(pos, has_output) ==
    IF ~init \/ ~has_output
    THEN [ret |-> FALSE, raises |-> FALSE]
    ELSE IF InRaster(pos)
         THEN [ret |-> TRUE, raises |-> FALSE]
         ELSE [ret |-> FALSE, raises |-> TRUE]

\* x / p where the int32_t x is converted to uint32_t first: for x < 0 this
\* is (2^32 + x) / p, computed from 2^32 = 4 * 2^30
U32Div(x, p) ==
    IF x >= 0 THEN x \div p
    ELSE 4 * (1073741824 \div p) + ((4 * (1073741824 % p) + x) \div p)

\* GetMousePos that only tests the cursor against the left and top edges
GetMousePos_without_upper_edge(x, y) ==
    IF ~init
    THEN [ret |-> FALSE, written |-> FALSE, out |-> <<0, 0>>]
    ELSE [ret |-> x >= 0 /\ y >= 0,
          written |-> TRUE,
          out |-> <<U32Div(x, pixel_size), U32Div(y, pixel_size)>>]

\* GetMousePos(output) when the cursor is at <<x, y>> relative to the window:
\* the return value and the position written
GetMousePos(x, y) ==
    IF ~init
    THEN [ret |-> FALSE, written |-> FALSE, out |-> <<0, 0>>]
    ELSE [ret |-> x >= 0 /\ x < window_width /\ y >= 0 /\ y < window_height,
          written |-> TRUE,
          out |-> <<U32Div(x, pixel_size), U32Div(y, pixel_size)>>]

\* WaitMs(ms): the time slept
WaitMs(ms) == IF init THEN ms ELSE 0

\* positions, colours, cursor offsets and durations given to the operations
Positions == {<<0, 0>>, <<15, 11>>, <<63, 47>>, <<64, 0>>, <<0, 48>>, <<2147483647, 0>>}

Colors == {<<0, 0, 0>>, <<255, 128, 1>>}

Offsets == {-1, 0, 639, 640}

Durations == {0, 33}

SetPixel(pos, color) ==
    /\ pc \in {"idle", "returned"}
    /\ pixels' = SetPixelEffect(pos, color).pixels
    /\ last_call' = [NoCall EXCEPT !.op = "SetPixel", !.was_init = init,
                                   !.pos = pos, !.color = color,
                                   !.ret = IF SetPixelEffect(pos, color).raises THEN -1 ELSE 0]
    /\ UNCHANGED <<engineVars, buttonVars, runVars, constructs, ghostVars,
                   handleVars, sdl, native, heap, call_log, probeVars, access>>

\* SetPixel(pos, color) made on the pixels px: does it raise out_of_range, and
\* the pixels after it
SetPixelOn(px, pos, color) ==
    IF init
    THEN IF InRaster(pos)
         THEN [raises |-> FALSE, pixels |-> (pos :> ColorToU32(color)) @@ px]
         ELSE [raises |-> TRUE, pixels |-> px]
    ELSE [raises |-> FALSE, pixels |-> px]

\* a loop body that builds Position(row, col)
ClearPosition_swapped(row, col) == <<row, col>>

\* Position(col, row), built by the body of the loops of Clear
ClearPosition(row, col) == <<col, row>>

\* the loops of Game::Clear from (row, col) on, stopped by the first SetPixel
\* that raises
RECURSIVE ClearLoop(_, _, _, _)
ClearLoop(px, row, col, color) ==
    IF row >= GetHeight THEN [raises |-> FALSE, pixels |-> px]
    ELSE IF col >= GetWidth THEN ClearLoop(px, row + 1, 0, color)
    ELSE LET e == SetPixelOn(px, ClearPosition(row, col), color)
         IN  IF e.raises THEN e ELSE ClearLoop(e.pixels, row, col + 1, color)

Clear(color) ==
    /\ pc \in {"idle", "returned"}
    /\ pixels' = ClearLoop(pixels, 0, 0, color).pixels
    /\ last_call' = [NoCall EXCEPT !.op = "Clear", !.was_init = init, !.color = color,
                                   !.ret = IF ClearLoop(pixels, 0, 0, color).raises THEN -1 ELSE 0]
    /\ UNCHANGED <<engineVars, buttonVars, runVars, constructs, ghostVars,
                   handleVars, sdl, native, heap, call_log, probeVars, access>>

\* the words a raster element can hold before anything was written to it
\* (malloc does not initialise the buffer)
Garbage == {<<0, 0, 0, 0>>, <<255, 255, 255, 255>>, <<4, 3, 2, 1>>}

\* engine.data[pos] for a position inside the raster: the words it can hold
Stored(pos) == IF pos \in DOMAIN pixels THEN {pixels[pos]} ELSE Garbage

\* the colours GetPixel(pos, output) can write to *output
GetPixelOutputs(pos) == {U32ToColor(w) : w \in Stored(pos)}

\* a call of GetPixel(pos, output): ret is -1 when it raises out_of_range,
\* 1 when it returns true, 0 when it returns false
CallGetPixel(pos, has_output) ==
    /\ pc \in {"idle", "returned"}
    /\ \E out \in (IF GetPixel(pos, has_output).ret THEN GetPixelOutputs(pos)
                                                    ELSE {NoCall.color}) :
           last_call' = [NoCall EXCEPT !.op = "GetPixel", !.was_init = init,
                                       !.pos = pos, !.color = out,
                                       !.has_output = has_output,
                                       !.ret = IF GetPixel(pos, has_output).raises THEN -1
                                               ELSE IF GetPixel(pos, has_output).ret THEN 1
                                               ELSE 0]
    /\ UNCHANGED <<engineVars, buttonVars, runVars, constructs, ghostVars,
                   handleVars, worldVars, call_log, probeVars, access>>

\* GetButton(button): the array slot it reads, if any
GetButtonAccess(button) ==
    IF init /\ valid(button)[1]
    THEN [array |-> IF button.tag = "MOUSE" THEN "mouse_state" ELSE "keyboard_state",
          index |-> valid(button)[2], button |-> button]
    ELSE [array |-> "none", index |-> -1, button |-> button]

\* GetButton(button): the state the application reads
GetButton(button) ==
    IF GetButtonAccess(button).array = "mouse_state"
    THEN mouse_state[GetButtonAccess(button).index]
    ELSE IF GetButtonAccess(button).array = "keyboard_state"
    THEN keyboard_state[GetButtonAccess(button).index]
    ELSE HardwareButton

(***************************************************************************)
(* GameEngine::Run<C>                                                      *)
(***************************************************************************)
RunEnter ==
    /\ pc \in {"idle", "returned"}
    /\ runs < MaxRuns
    /\ runs' = runs + 1
    /\ frame' = 0
    /\ polled' = 0
    /\ app' = "unset"
    /\ end' = FALSE
    /\ status' = EXIT_SUCCESS
    /\ upd_count' = NoUpdates
    /\ q_events' = "none"
    /\ IF ~init
       THEN /\ pc' = "returned"
            /\ retval' = EXIT_FAILURE
            /\ obs' = [NoCalls EXCEPT !.not_ready = TRUE]
       ELSE /\ pc' = "purge"
            /\ retval' = -1
            /\ obs' = NoCalls
    /\ UNCHANGED <<engineVars, buttonVars, constructs, frame_down, q_phase>>
    /\ UNCHANGED <<lifeVars, probeVars, access>>


\* a purge loop that only discards
PurgeReturns_never(ev) == FALSE

\* line 912: does the purge loop return on this event
PurgeReturns(ev) == ev.type = "SDL_QUIT"

IsQEvent(ev) == ev.type \in {"SDL_KEYDOWN", "SDL_KEYUP"} /\ ev.code = 113

PurgePoll(ev) ==
    /\ pc = "purge"
    /\ polled < MaxEvents
    /\ IF PurgeReturns(ev)
       THEN /\ pc' = "returned"
            /\ retval' = EXIT_SUCCESS
            /\ polled' = 0
       ELSE /\ polled' = polled + 1
            /\ UNCHANGED <<pc, retval>>
    /\ obs' = [obs EXCEPT !.purge_quit = @ \/ ev.type = "SDL_QUIT"]
    /\ q_phase' = IF IsQEvent(ev) THEN "off" ELSE q_phase
    /\ UNCHANGED <<engineVars, buttonVars, constructs, end, status, app, frame, runs,
                   upd_count, frame_down, q_events>>
    /\ UNCHANGED <<lifeVars, probeVars, access>>

PurgeEmpty ==
    /\ pc = "purge"
    /\ pc' = "create"
    /\ polled' = 0
    /\ UNCHANGED <<engineVars, buttonVars, constructs, end, status, retval, app, frame, runs,
                   ghostVars>>
    /\ UNCHANGED <<lifeVars, probeVars, access>>

CreateOutcomes == {"ctor_throws", "create_throws", "create_false", "create_true"}


\* the result of OnUserCreate is dropped, only exceptions are seen
CreateOk_ignores_result(outcome) == outcome \in {"create_true", "create_false"}

\* lines 923-929: the value of ok after the try block
CreateOk(outcome) == outcome = "create_true"

Create(outcome) ==
    /\ pc = "create"
    /\ app' = IF outcome = "ctor_throws" THEN "unset" ELSE "live"
    /\ obs' = [obs EXCEPT !.ctor = @ + 1,
                          !.OnUserCreate = IF outcome = "ctor_throws" THEN @ ELSE @ + 1,
                          !.create_failed = ~(outcome = "create_true")]
    /\ IF ~CreateOk(outcome)
       THEN /\ pc' = "returned"
            /\ retval' = EXIT_FAILURE
            /\ UNCHANGED <<end, status>>
       ELSE /\ pc' = "timing"
            /\ status' = EXIT_SUCCESS
            /\ end' = FALSE
            /\ UNCHANGED retval
    /\ UNCHANGED <<engineVars, buttonVars, constructs, polled, frame, runs,
                   upd_count, frame_down, q_phase, q_events>>
    /\ UNCHANGED <<lifeVars, probeVars, access>>

Timing ==
    /\ pc = "timing"
    /\ frame < MaxFrames
    /\ frame' = frame + 1
    /\ pc' = "events"
    /\ polled' = 0
    /\ upd_count' = NoUpdates
    /\ q_events' = "none"
    /\ obs' = [obs EXCEPT !.drained = FALSE, !.updated = FALSE]
    /\ UNCHANGED <<engineVars, buttonVars, constructs, end, status, retval, app, runs,
                   frame_down, q_phase>>
    /\ UNCHANGED <<lifeVars, probeVars, access>>

\* an input step that indexes the arrays without asking valid()
EventAccess_unchecked(ev) ==
    IF ev.type \in {"SDL_KEYDOWN", "SDL_KEYUP"}
    THEN [array |-> "keyboard_state", index |-> EventButton(ev).val - first_key,
          button |-> EventButton(ev)]
    ELSE IF ev.type \in {"SDL_MOUSEBUTTONDOWN", "SDL_MOUSEBUTTONUP"}
    THEN [array |-> "mouse_state", index |-> EventButton(ev).val - first_index,
          button |-> EventButton(ev)]
    ELSE NoAccess

\* lines 945-966: the array slot written for one event, if any
EventAccess(ev) ==
    IF ev.type \in {"SDL_KEYDOWN", "SDL_KEYUP"}
    THEN IF valid(EventButton(ev))[1]
         THEN [array |-> "keyboard_state", index |-> valid(EventButton(ev))[2],
               button |-> EventButton(ev)]
         ELSE [array |-> "none", index |-> -1, button |-> EventButton(ev)]
    ELSE IF ev.type \in {"SDL_MOUSEBUTTONDOWN", "SDL_MOUSEBUTTONUP"}
    THEN IF valid(EventButton(ev))[1]
         THEN [array |-> "mouse_state", index |-> valid(EventButton(ev))[2],
               button |-> EventButton(ev)]
         ELSE [array |-> "none", index |-> -1, button |-> EventButton(ev)]
    ELSE NoAccess

\* lines 951-956: keyboard_state after one event
KeyboardAfter(ks, ev) ==
    IF EventAccess(ev).array = "keyboard_state"
    THEN [ks EXCEPT ![EventAccess(ev).index].down = EventDown(ev)]
    ELSE ks

\* lines 957-964: mouse_state after one event
MouseAfter(ms, ev) ==
    IF EventAccess(ev).array = "mouse_state"
    THEN [ms EXCEPT ![EventAccess(ev).index].down = EventDown(ev)]
    ELSE ms

PollEvent(ev) ==
    /\ pc = "events"
    /\ polled < MaxEvents
    /\ polled' = polled + 1
    /\ end' = (end \/ ev.type = "SDL_QUIT")
    /\ keyboard_state' = KeyboardAfter(keyboard_state, ev)
    /\ mouse_state' = MouseAfter(mouse_state, ev)
    /\ q_events' = IF ~IsQEvent(ev) THEN q_events
                   ELSE IF q_events /= "none" THEN "many"
                   ELSE IF EventDown(ev) THEN "down" ELSE "up"
    /\ obs' = [obs EXCEPT !.loop_quit = @ \/ ev.type = "SDL_QUIT"]
    /\ UNCHANGED <<engineVars, constructs, pc, status, retval, app, frame, runs,
                   upd_count, frame_down, q_phase>>
    /\ access' = EventAccess(ev)
    /\ UNCHANGED <<lifeVars, probeVars>>

PollEmpty ==
    /\ pc = "events"
    /\ pc' = "update_mouse"
    /\ polled' = 0
    /\ obs' = [obs EXCEPT !.drained = TRUE]
    /\ UNCHANGED <<engineVars, buttonVars, constructs, end, status, retval, app, frame, runs,
                   upd_count, frame_down, q_phase, q_events>>
    /\ access' = NoAccess
    /\ UNCHANGED <<lifeVars, probeVars>>

\* the scenario of one key-down of 'q' followed, in a later frame, by one key-up;
\* evs tells which events of 'q' the frame drained: none, one down, one up, many
QPhaseNext(phase, evs) ==
    IF phase = "fresh"
    THEN IF evs = "none" THEN "fresh" ELSE IF evs = "down" THEN "pressed" ELSE "off"
    ELSE IF phase \in {"pressed", "held"}
    THEN IF evs = "none" THEN "held" ELSE IF evs = "up" THEN "released" ELSE "off"
    ELSE IF phase \in {"released", "after"}
    THEN IF evs = "none" THEN "after" ELSE "off"
    ELSE "off"

\* the mouse loop stops one button short
UpdateMouse_short ==
    /\ pc = "update_mouse"
    /\ pc' = "update_keyboard"
    /\ mouse_state' = [i \in MouseIdx |->
                         IF i < index_count - 1 THEN update(mouse_state[i]) ELSE mouse_state[i]]
    /\ upd_count' = [upd_count EXCEPT
                       !.mouse = [i \in MouseIdx |-> IF i < index_count - 1 THEN @[i] + 1 ELSE @[i]]]
    /\ frame_down' = [frame_down EXCEPT
                        !.mouse = [i \in MouseIdx |->
                                     IF i < index_count - 1
                                     THEN <<@[i][2], mouse_state[i].down>> ELSE @[i]]]
    /\ UNCHANGED <<engineVars, keyboard_state, constructs, end, status, retval, app, polled,
                   frame, runs, obs, q_phase, q_events>>
    /\ UNCHANGED <<lifeVars, probeVars, access>>

\* lines 967-969
UpdateMouse ==
    /\ pc = "update_mouse"
    /\ pc' = "update_keyboard"
    /\ mouse_state' = [i \in MouseIdx |-> update(mouse_state[i])]
    /\ upd_count' = [upd_count EXCEPT !.mouse = [i \in MouseIdx |-> @[i] + 1]]
    /\ frame_down' = [frame_down EXCEPT
                        !.mouse = [i \in MouseIdx |-> <<@[i][2], mouse_state[i].down>>]]
    /\ UNCHANGED <<engineVars, keyboard_state, constructs, end, status, retval, app, polled,
                   frame, runs, obs, q_phase, q_events>>
    /\ UNCHANGED <<lifeVars, probeVars, access>>

\* lines 970-972
UpdateKeyboard ==
    /\ pc = "update_keyboard"
    /\ pc' = "update"
    /\ keyboard_state' = [i \in KeyIdx |-> update(keyboard_state[i])]
    /\ upd_count' = [upd_count EXCEPT !.keys = [i \in KeyIdx |-> @[i] + 1]]
    /\ frame_down' = [frame_down EXCEPT
                        !.keys = [i \in KeyIdx |-> <<@[i][2], keyboard_state[i].down>>]]
    /\ q_phase' = QPhaseNext(q_phase, q_events)
    /\ obs' = [obs EXCEPT !.debounce = @ + 1]
    /\ UNCHANGED <<engineVars, mouse_state, constructs, end, status, retval, app, polled,
                   frame, runs, q_events>>
    /\ UNCHANGED <<lifeVars, probeVars, access>>

UpdateOutcomes == {"true", "false", "throws"}


\* end = !OnUserUpdate(...) instead of end |= ...
UpdateCatch_forgets_end(outcome, e, s) ==
    IF outcome = "throws"
    THEN [end |-> TRUE, status |-> EXIT_FAILURE]
    ELSE [end |-> outcome = "false", status |-> s]

\* a catch block that logs and carries on
UpdateCatch_continues(outcome, e, s) ==
    IF outcome = "throws"
    THEN [end |-> e, status |-> EXIT_FAILURE]
    ELSE [end |-> (e \/ outcome = "false"), status |-> s]

\* lines 975-981: end and status after the update try block
UpdateCatch(outcome, e, s) ==
    IF outcome = "throws"
    THEN [end |-> TRUE, status |-> EXIT_FAILURE]
    ELSE [end |-> (e \/ outcome = "false"), status |-> s]

UserUpdate(outcome) ==
    /\ pc = "update"
    /\ pc' = "display"
    /\ end' = UpdateCatch(outcome, end, status).end
    /\ status' = UpdateCatch(outcome, end, status).status
    /\ obs' = [obs EXCEPT !.OnUserUpdate = @ + 1,
                          !.updated = TRUE,
                          !.update_threw = @ \/ outcome = "throws",
                          !.update_stop = @ \/ outcome = "false"]
    /\ UNCHANGED <<engineVars, buttonVars, constructs, retval, app, polled, frame, runs,
                   upd_count, frame_down, q_phase, q_events>>
    /\ UNCHANGED <<lifeVars, probeVars, access>>

DisplayOutcomes == {"ok", "SDL_UpdateTexture", "SDL_RenderCopy"}


\* a catch block that ends the loop but keeps the status
DisplayCatch_keeps_status(outcome, e, s) ==
    IF outcome /= "ok"
    THEN [end |-> TRUE, status |-> s]
    ELSE [end |-> e, status |-> s]

\* a catch block that records the failure but does not end the loop
DisplayCatch_keeps_running(outcome, e, s) ==
    IF outcome /= "ok"
    THEN [end |-> e, status |-> EXIT_FAILURE]
    ELSE [end |-> e, status |-> s]

\* lines 984-1005: end and status after the display try block
DisplayCatch(outcome, e, s) ==
    IF outcome /= "ok"
    THEN [end |-> TRUE, status |-> EXIT_FAILURE]
    ELSE [end |-> e, status |-> s]

Display(outcome) ==
    /\ pc = "display"
    /\ end' = DisplayCatch(outcome, end, status).end
    /\ status' = DisplayCatch(outcome, end, status).status
    /\ pc' = IF end' THEN "finalize" ELSE "timing"
    /\ obs' = [obs EXCEPT !.present = @ + 1,
                          !.present_failed = @ \/ outcome /= "ok"]
    /\ UNCHANGED <<engineVars, buttonVars, constructs, retval, app, polled, frame, runs,
                   upd_count, frame_down, q_phase, q_events>>
    /\ UNCHANGED <<lifeVars, probeVars, access>>


\* finalization that forgets OnUserDestroy
Finalize_without_destroy ==
    /\ pc = "finalize"
    /\ pc' = "returned"
    /\ app' = "deleted"
    /\ retval' = status
    /\ obs' = [obs EXCEPT !.deleted = @ + 1]
    /\ UNCHANGED <<engineVars, buttonVars, constructs, end, status, polled, frame, runs,
                   upd_count, frame_down, q_phase, q_events>>
    /\ UNCHANGED <<lifeVars, probeVars, access>>

\* lines 1008-1012
Finalize ==
    /\ pc = "finalize"
    /\ pc' = "returned"
    /\ app' = "deleted"
    /\ retval' = status
    /\ obs' = [obs EXCEPT !.OnUserDestroy = @ + 1, !.deleted = @ + 1]
    /\ UNCHANGED <<engineVars, buttonVars, constructs, end, status, polled, frame, runs,
                   upd_count, frame_down, q_phase, q_events>>
    /\ UNCHANGED <<lifeVars, probeVars, access>>

\* the frame loop reads nothing of a failed Construct but init = false: here
\* the backend either works or fails at its first step
LoopConstructFailures == {"none", "SDL_Init"}

\* nor does the loop read the dimensions: one valid and one invalid call
LoopConstructArgs == {<<640, 480, 10>>, <<100, 101, 10>>}

Next ==
    \/ \E a \in LoopConstructArgs, f \in LoopConstructFailures : Construct(a[1], a[2], a[3], f)
    \/ RunEnter
    \/ \E ev \in Events : PurgePoll(ev)
    \/ PurgeEmpty
    \/ \E o \in CreateOutcomes : Create(o)
    \/ Timing
    \/ \E ev \in Events : PollEvent(ev)
    \/ PollEmpty
    \/ UpdateMouse
    \/ UpdateKeyboard
    \/ \E o \in UpdateOutcomes : UserUpdate(o)
    \/ \E o \in DisplayOutcomes : Display(o)
    \/ Finalize

Spec == Init /\ [][Next]_vars

\* the life of the engine outside of Run: construction with every backend
\* failure, pixel writes, destruction at exit
NextLife ==
    \/ \E a \in ConstructArgs, f \in ConstructFailures : Construct(a[1], a[2], a[3], f)
    \/ \E pos \in Positions, c \in Colors : SetPixel(pos, c)
    \/ \E pos \in Positions, has_output \in BOOLEAN : CallGetPixel(pos, has_output)
    \/ Exit

SpecLife == Init /\ [][NextLife]_vars

\* Button::valid applied to any Button
InitValid ==
    /\ InitEngine
    /\ probe \in Buttons
    /\ answer = NoAnswer

ApplyValid ==
    /\ ~answer.called
    /\ answer' = [called |-> TRUE, ret |-> valid(probe)[1], index |-> valid(probe)[2]]
    /\ UNCHANGED <<engineVars, buttonVars, runVars, constructs, ghostVars, lifeVars, probe, access>>

NextValid == ApplyValid

SpecValid == InitValid /\ [][NextValid]_vars


\* the SDL_KEYDOWN and SDL_KEYUP cases of the input step, on a ready engine
TranslateKey(ev) ==
    /\ init
    /\ pc = "idle"
    /\ polled < MaxEvents
    /\ polled' = polled + 1
    /\ keyboard_state' = KeyboardAfter(keyboard_state, ev)
    /\ mouse_state' = MouseAfter(mouse_state, ev)
    /\ probe' = ev
    /\ access' = EventAccess(ev)
    /\ UNCHANGED <<engineVars, pc, end, status, retval, app, frame, runs, constructs,
                   ghostVars, lifeVars, answer>>

NextKeys ==
    \/ Construct(640, 480, 10, "none")
    \/ \E ev \in KeyEvents : TranslateKey(ev)

SpecKeys == Init /\ [][NextKeys]_vars


\* a write that never clears down
WriteDown_sticky(b, v) == [b EXCEPT !.down = b.down \/ v]

\* lines 952-964: the input step writes the raw state of a button
WriteDown(b, v) == [b EXCEPT !.down = v]

\* one HardwareButton on its own: the raw writes of the events of a frame,
\* then update(). answer remembers the writes of the current frame, those of
\* the frame before with the button that frame started from, the number of
\* updates and whether down was ever written
NoWrites == [writes |-> <<>>, before |-> <<>>, was |-> HardwareButton, updates |-> 0,
             touched |-> FALSE]

InitButton ==
    /\ InitEngine
    /\ probe = HardwareButton
    /\ answer = NoWrites

SetDown(v) ==
    /\ Len(answer.writes) < MaxEvents
    /\ probe' = WriteDown(probe, v)
    /\ answer' = [answer EXCEPT !.writes = Append(@, v), !.touched = TRUE]
    /\ UNCHANGED <<engineVars, buttonVars, runVars, constructs, ghostVars, lifeVars, access>>

UpdateButton ==
    /\ answer.updates < MaxFrames
    /\ probe' = update(probe)
    /\ answer' = [answer EXCEPT !.writes = <<>>, !.before = answer.writes, !.was = probe,
                                !.updates = @ + 1]
    /\ UNCHANGED <<engineVars, buttonVars, runVars, constructs, ghostVars, lifeVars, access>>

NextButton ==
    \/ \E v \in BOOLEAN : SetDown(v)
    \/ UpdateButton

SpecButton == InitButton /\ [][NextButton]_vars


(***************************************************************************)
(* Tmat2D on its own                                                       *)
(***************************************************************************)
\* Tmat2D(rows, cols): the number of elements malloc is asked for
AllocCount(rows, cols) == MulU32(ToBytes(rows), ToBytes(cols))

\* operator[](index)[col]: out_of_range, or the element data + cols * index + col
At(m, row, col) ==
    IF row >= m.rows \/ col >= m.cols
    THEN [raises |-> TRUE, offset |-> <<0, 0, 0, 0, 0>>]
    ELSE [raises |-> FALSE,
          offset |-> AddWide(MulU32(ToBytes(m.cols), ToBytes(row)), ToBytes(col))]

\* operator[](Position): x is the column and y the row
AtPosition(m, pos) == At(m, pos[2], pos[1])

\* the shapes of the matrices built, and the rows and columns asked of them
MatShapes == {<<1, 1>>, <<2, 3>>, <<3, 2>>, <<1, 4>>, <<65536, 65537>>}

MatIndexes == {0, 1, 2, 3, 4, 65535, 65536, 65537, 2147483647}

NoElement == [called |-> FALSE, pos |-> <<0, 0>>, raises |-> FALSE, offset |-> <<0, 0, 0, 0, 0>>]

InitMat ==
    /\ InitEngine
    /\ \E s \in MatShapes :
           probe = [rows |-> s[1], cols |-> s[2], ptr |-> 1, alloc |-> AllocCount(s[1], s[2])]
    /\ answer = NoElement

Element(pos) ==
    /\ ~answer.called
    /\ answer' = [called |-> TRUE, pos |-> pos,
                  raises |-> AtPosition(probe, pos).raises,
                  offset |-> AtPosition(probe, pos).offset]
    /\ UNCHANGED <<engineVars, buttonVars, runVars, constructs, ghostVars, lifeVars, probe, access>>

NextMat == \E x \in MatIndexes, y \in MatIndexes : Element(<<x, y>>)

SpecMat == InitMat /\ [][NextMat]_vars


(***************************************************************************)
(* Color on its own                                                        *)
(***************************************************************************)
\* the channel values and the bytes of the words tried
Channels == {0, 1, 127, 128, 254, 255}

WordBytes == {0, 1, 128, 255}

NoColor == [packed |-> FALSE, word |-> <<0, 0, 0, 0>>, unpacked |-> FALSE, color |-> <<0, 0, 0>>]

InitColor ==
    /\ InitEngine
    /\ \/ probe \in [kind : {"Color"}, val : Channels \X Channels \X Channels]
       \/ probe \in [kind : {"uint32_t"}, val : WordBytes \X WordBytes \X WordBytes \X WordBytes]
    /\ answer = NoColor

\* uint32_t(color)
Pack ==
    /\ probe.kind = "Color" /\ ~answer.packed
    /\ answer' = [answer EXCEPT !.packed = TRUE, !.word = ColorToU32(probe.val)]
    /\ UNCHANGED <<engineVars, buttonVars, runVars, constructs, ghostVars, lifeVars, probe, access>>

\* Color(word), of the word given or of the word just packed
Unpack ==
    /\ ~answer.unpacked
    /\ probe.kind = "Color" => answer.packed
    /\ answer' = [answer EXCEPT !.unpacked = TRUE,
                     !.color = U32ToColor(IF probe.kind = "Color" THEN answer.word ELSE probe.val)]
    /\ UNCHANGED <<engineVars, buttonVars, runVars, constructs, ghostVars, lifeVars, probe, access>>

NextColor == Pack \/ Unpack

SpecColor == InitColor /\ [][NextColor]_vars


(***************************************************************************)
(* Tmat2D objects: copies and moves                                        *)
(***************************************************************************)
\* the operations made on the objects
MaxCopies == 2

\* three matrix objects and the local tmp of the copy assignment
Objects == {1, 2, 3}

Tmp == 0

Values == {0, 1}

CopyShapes == {<<1, 1>>, <<1, 2>>, <<2, 1>>}

\* the elements of a matrix, in the order of its buffer
Buffer(m, mat) == IF mat.ptr = 0 THEN <<>> ELSE m.heap[mat.ptr]

\* ~Tmat2D(): free(data); the fields stay as they were
Destroy(m, t) == [m EXCEPT !.heap = [p \in DOMAIN m.heap \ {m.objs[t].ptr} |-> m.heap[p]]]

\* a copy constructor that takes the buffer of the source
CopyCtor_shallow(m, t, s) == [m EXCEPT !.objs[t] = m.objs[s]]

\* Tmat2D(Tmat2D const& other) run on object t: a new buffer of rows * cols
\* elements, each a copy of the element of the source
CopyCtor(m, t, s) ==
    [m EXCEPT !.objs[t] = [rows |-> m.objs[s].rows, cols |-> m.objs[s].cols, ptr |-> m.next],
              !.heap = (m.next :> Buffer(m, m.objs[s])) @@ m.heap,
              !.next = m.next + 1]

\* Tmat2D(Tmat2D&& other) run on object t
MoveCtor(m, t, s) == [m EXCEPT !.objs[t] = m.objs[s], !.objs[s] = Tmat2D]

\* operator=(Tmat2D&& other)
MoveAssign(m, t, s) == IF t /= s THEN MoveCtor(m, t, s) ELSE m

\* operator=(Tmat2D const& other): tmp(other), this->~Tmat2D(),
\* *this = std::move(tmp), then tmp goes out of scope
CopyAssign(m, t, s) ==
    IF t /= s
    THEN Destroy(MoveAssign(Destroy(CopyCtor(m, Tmp, s), t), t, Tmp), Tmp)
    ELSE m

\* matrix[row][col] = v on an element of the matrix
WriteElement(m, t, off, v) == [m EXCEPT !.heap[m.objs[t].ptr][off] = v]

NoOperation == [op |-> "none", target |-> Tmp, source |-> Tmp]

Matrices(ptr) ==
    UNION {{[mat |-> [rows |-> sh[1], cols |-> sh[2], ptr |-> ptr], buf |-> b] :
               b \in [1 .. sh[1] * sh[2] -> Values]} : sh \in CopyShapes}

InitCopy ==
    /\ InitEngine
    /\ \E a \in Matrices(1), b \in Matrices(2) \cup {[mat |-> Tmat2D, buf |-> <<>>]} :
           probe = [objs |-> (Tmp :> Tmat2D) @@ (1 :> a.mat) @@ (2 :> b.mat) @@ (3 :> Tmat2D),
                    heap |-> IF b.mat.ptr = 0 THEN (1 :> a.buf)
                                              ELSE (1 :> a.buf) @@ (2 :> b.buf),
                    next |-> 3,
                    live |-> {1, 2}]
    /\ answer = [count |-> 0, last |-> NoOperation, prev |-> NoOperation]

Operated(op, t, s) ==
    /\ answer.count < MaxCopies
    /\ answer' = [count |-> answer.count + 1,
                  last |-> [op |-> op, target |-> t, source |-> s],
                  prev |-> answer.last]
    /\ UNCHANGED <<engineVars, buttonVars, runVars, constructs, ghostVars, lifeVars, access>>

CopyConstruct(t, s) ==
    /\ t \notin probe.live /\ s \in probe.live
    /\ probe' = [CopyCtor(probe, t, s) EXCEPT !.live = @ \cup {t}]
    /\ Operated("copy construct", t, s)

MoveConstruct(t, s) ==
    /\ t \notin probe.live /\ s \in probe.live
    /\ probe' = [MoveCtor(probe, t, s) EXCEPT !.live = @ \cup {t}]
    /\ Operated("move construct", t, s)

CopyAssignment(t, s) ==
    /\ t \in probe.live /\ s \in probe.live
    /\ probe' = CopyAssign(probe, t, s)
    /\ Operated("copy assign", t, s)

MoveAssignment(t, s) ==
    /\ t \in probe.live /\ s \in probe.live
    /\ probe' = MoveAssign(probe, t, s)
    /\ Operated("move assign", t, s)

Modify(t, off, v) ==
    /\ t \in probe.live
    /\ off \in 1 .. probe.objs[t].rows * probe.objs[t].cols
    /\ probe' = WriteElement(probe, t, off, v)
    /\ Operated("write", t, t)

NextCopy ==
    \/ \E t \in Objects, s \in Objects : CopyConstruct(t, s)
    \/ \E t \in Objects, s \in Objects : MoveConstruct(t, s)
    \/ \E t \in Objects, s \in Objects : CopyAssignment(t, s)
    \/ \E t \in Objects, s \in Objects : MoveAssignment(t, s)
    \/ \E t \in Objects, off \in 1 .. 2, v \in Values : Modify(t, off, v)

SpecCopy == InitCopy /\ [][NextCopy]_vars


(***************************************************************************)
(* Game::Clear on small rasters                                            *)
(***************************************************************************)
\* arguments of Construct that give rasters of 2 x 3, 3 x 2 and 2 x 2 pixels
ClearArgs == {<<3, 2, 1>>, <<2, 3, 1>>, <<4, 4, 2>>}

ClearFailures == {"none", "malloc"}

\* positions written before a Clear
ClearPositions == {<<0, 0>>, <<2, 1>>, <<1, 2>>}

NextClear ==
    \/ \E a \in ClearArgs, f \in ClearFailures : Construct(a[1], a[2], a[3], f)
    \/ \E c \in Colors : Clear(c)
    \/ \E pos \in ClearPositions, c \in Colors : SetPixel(pos, c)
    \/ Exit

SpecClear == Init /\ [][NextClear]_vars


(***************************************************************************)
(* The Game of Life demo: pause and single step                            *)
(***************************************************************************)
\* the frames of a run of the demo
MaxDemoFrames == 4

\* the keys the demo reads
DemoKeys == {"q", "p", "s"}

\* an update that handles 's' before 'p'
LifeUpdate_step_first(g, q, p, s) ==
    LET generation == ~g.pause \/ g.step
        step1 == IF generation THEN FALSE ELSE g.step
        step2 == IF s /\ g.pause THEN TRUE ELSE step1
        pause2 == IF p THEN ~g.pause ELSE g.pause
    IN  IF q THEN [generation |-> generation, pause |-> g.pause, step |-> step1, ret |-> FALSE]
             ELSE [generation |-> generation, pause |-> pause2, step |-> step2, ret |-> TRUE]

\* GameOfLife::OnUserUpdate on the members pause and step, given the pressed
\* flags of 'q', 'p' and 's': is a generation computed, the members after the
\* call (as pause and step) and the return value
LifeUpdate(g, q, p, s) ==
    LET generation == ~g.pause \/ g.step
        step1 == IF generation THEN FALSE ELSE g.step
        pause2 == IF p THEN ~g.pause ELSE g.pause
        step2 == IF s /\ pause2 THEN TRUE ELSE step1
    IN  IF q THEN [generation |-> generation, pause |-> g.pause, step |-> step1, ret |-> FALSE]
             ELSE [generation |-> generation, pause |-> pause2, step |-> step2, ret |-> TRUE]

\* the members of GameOfLife are not initialised before OnUserCreate
InitDemo ==
    /\ InitEngine
    /\ probe \in [pause : BOOLEAN, step : BOOLEAN, state : {"constructed"},
                  keys : {[k \in DemoKeys |-> HardwareButton]}]
    /\ answer = [frames |-> <<>>, generations |-> 0]

\* GameOfLife::OnUserCreate: false when the ratio given is out of range
DemoCreate(ok) ==
    /\ probe.state = "constructed"
    /\ probe' = [probe EXCEPT !.pause = FALSE, !.step = FALSE,
                              !.state = IF ok THEN "running" ELSE "stopped"]
    /\ UNCHANGED <<engineVars, buttonVars, runVars, constructs, ghostVars, lifeVars,
                   answer, access>>

\* one frame of Run: the keys are held or not, the buttons are updated, and
\* OnUserUpdate is called
DemoFrame(held) ==
    /\ probe.state = "running" /\ Len(answer.frames) < MaxDemoFrames
    /\ LET keys == [k \in DemoKeys |-> update(WriteDown(probe.keys[k], held[k]))]
           u == LifeUpdate(probe, keys["q"].pressed, keys["p"].pressed, keys["s"].pressed)
       IN  /\ probe' = [pause |-> u.pause, step |-> u.step, keys |-> keys,
                        state |-> IF u.ret THEN "running" ELSE "stopped"]
           /\ answer' = [frames |-> Append(answer.frames,
                                       [paused |-> probe.pause, generation |-> u.generation,
                                        q |-> keys["q"].pressed, p |-> keys["p"].pressed,
                                        s |-> keys["s"].pressed, paused_after |-> u.pause,
                                        ret |-> u.ret]),
                         generations |-> answer.generations + (IF u.generation THEN 1 ELSE 0)]
    /\ UNCHANGED <<engineVars, buttonVars, runVars, constructs, ghostVars, lifeVars, access>>

NextDemo ==
    \/ \E ok \in BOOLEAN : DemoCreate(ok)
    \/ \E held \in [DemoKeys -> BOOLEAN] : DemoFrame(held)

SpecDemo == InitDemo /\ [][NextDemo]_vars


(***************************************************************************)
(* Random: rangeUint and rangeInt. Numbers of 32 and 64 bits are written   *)
(* as four and eight bytes, least significant first.                       *)
(***************************************************************************)
\* the draws of one call
MaxDraws == 3

\* static_cast<uint64_t>(x) of a uint32_t, and the two halves of a uint64_t
Wide(x) == x \o <<0, 0, 0, 0>>

Low(x) == SubSeq(x, 1, 4)

High(x) == SubSeq(x, 5, 8)

\* a + b in uint64_t arithmetic
Add64(a, b) ==
    LET c1 == a[1] + b[1]
        c2 == a[2] + b[2] + (c1 \div 256)
        c3 == a[3] + b[3] + (c2 \div 256)
        c4 == a[4] + b[4] + (c3 \div 256)
        c5 == a[5] + b[5] + (c4 \div 256)
        c6 == a[6] + b[6] + (c5 \div 256)
        c7 == a[7] + b[7] + (c6 \div 256)
        c8 == a[8] + b[8] + (c7 \div 256)
    IN  <<c1 % 256, c2 % 256, c3 % 256, c4 % 256, c5 % 256, c6 % 256, c7 % 256, c8 % 256>>

\* a - b in uint64_t arithmetic
Sub64(a, b) ==
    LET d1 == a[1] - b[1]
        d2 == a[2] - b[2] - (IF d1 < 0 THEN 1 ELSE 0)
        d3 == a[3] - b[3] - (IF d2 < 0 THEN 1 ELSE 0)
        d4 == a[4] - b[4] - (IF d3 < 0 THEN 1 ELSE 0)
        d5 == a[5] - b[5] - (IF d4 < 0 THEN 1 ELSE 0)
        d6 == a[6] - b[6] - (IF d5 < 0 THEN 1 ELSE 0)
        d7 == a[7] - b[7] - (IF d6 < 0 THEN 1 ELSE 0)
        d8 == a[8] - b[8] - (IF d7 < 0 THEN 1 ELSE 0)
    IN  <<(d1 + 256) % 256, (d2 + 256) % 256, (d3 + 256) % 256, (d4 + 256) % 256, (d5 + 256) % 256, (d6 + 256) % 256, (d7 + 256) % 256, (d8 + 256) % 256>>

RECURSIVE ColumnSum(_, _, _, _)
ColumnSum(a, b, k, i) ==
    IF i = 0 THEN 0 ELSE a[i] * b[k - i + 1] + ColumnSum(a, b, k, i - 1)

\* a * b in uint64_t arithmetic
Mul64(a, b) ==
    LET t1 == ColumnSum(a, b, 1, 1)
        t2 == ColumnSum(a, b, 2, 2) + (t1 \div 256)
        t3 == ColumnSum(a, b, 3, 3) + (t2 \div 256)
        t4 == ColumnSum(a, b, 4, 4) + (t3 \div 256)
        t5 == ColumnSum(a, b, 5, 5) + (t4 \div 256)
        t6 == ColumnSum(a, b, 6, 6) + (t5 \div 256)
        t7 == ColumnSum(a, b, 7, 7) + (t6 \div 256)
        t8 == ColumnSum(a, b, 8, 8) + (t7 \div 256)
    IN  <<t1 % 256, t2 % 256, t3 % 256, t4 % 256, t5 % 256, t6 % 256, t7 % 256, t8 % 256>>

\* bit k of a, bit 0 being the lowest
BitOf(a, k) == (a[(k \div 8) + 1] \div (2 ^ (k % 8))) % 2

\* a / b and a % b in uint64_t arithmetic, b /= 0, by long division: st is
\* the quotient and the remainder of the bits above bit k
RECURSIVE DivStep(_, _, _, _)
DivStep(a, b, k, st) ==
    IF k < 0 THEN st
    ELSE LET r2 == Add64(Add64(st.r, st.r), <<BitOf(a, k), 0, 0, 0, 0, 0, 0, 0>>)
             q2 == Add64(st.q, st.q)
         IN  IF LessBytes(r2, b)
             THEN DivStep(a, b, k - 1, [q |-> q2, r |-> r2])
             ELSE DivStep(a, b, k - 1,
                          [q |-> Add64(q2, <<1, 0, 0, 0, 0, 0, 0, 0>>), r |-> Sub64(r2, b)])

DivMod(a, b) ==
    DivStep(a, b, 63, [q |-> <<0, 0, 0, 0, 0, 0, 0, 0>>, r |-> <<0, 0, 0, 0, 0, 0, 0, 0>>])

\* x < y for two int32_t written in two's complement
SignedLess(x, y) ==
    IF (x[4] >= 128) /= (y[4] >= 128) THEN x[4] >= 128 ELSE LessBytes(x, y)

One64 == <<1, 0, 0, 0, 0, 0, 0, 0>>

\* 1 + static_cast<uint64_t>(MAX) = 2^32
MaxPlusOne == <<0, 0, 0, 0, 1, 0, 0, 0>>

\* Random::update: state *= 0x5555555555555555, ++state
RandomUpdate(state) == Add64(Mul64(state, <<85, 85, 85, 85, 85, 85, 85, 85>>), One64)

\* static_cast<uint64_t>(max) - min + 1
RangeSize(min, max) == Add64(Sub64(Wide(max), Wide(min)), One64)

\* 2^32 / range_size * range_size
MaxDivisibleRange(range_size) == Mul64(DivMod(MaxPlusOne, range_size).q, range_size)

\* a return that forgets min
RangeValue_without_min(min, x, range_size) == Low(DivMod(Wide(x), range_size).r)

\* min + x % range_size, converted to uint32_t
RangeValue(min, x, range_size) == Low(Add64(Wide(min), DivMod(Wide(x), range_size).r))

\* a difference that forgets min
RangeIntMax_without_min(min, max) == max

\* static_cast<uint32_t>(max - min), the int difference being taken modulo 2^32
RangeIntMax(min, max) == Low(Sub64(Wide(max), Wide(min)))

\* the bounds given: 0, 1, 2^31 - 1, 2^31 (INT32_MIN as an int32_t) and
\* 2^32 - 1 (-1 as an int32_t)
RangeBounds ==
    {<<0, 0, 0, 0>>, <<1, 0, 0, 0>>, <<255, 255, 255, 127>>, <<0, 0, 0, 128>>,
     <<255, 255, 255, 255>>}

\* states of the generator
RandomStates ==
    {<<0, 0, 0, 0, 0, 0, 0, 0>>, <<37, 35, 34, 132, 228, 156, 242, 203>>,
     <<255, 255, 255, 255, 255, 255, 255, 255>>}

InitRandom ==
    /\ InitEngine
    /\ probe \in [fn : {"rangeUint", "rangeInt"}, min : RangeBounds, max : RangeBounds,
                  state : RandomStates, phase : {"call"}]
    /\ answer \in [seed : {probe.state}, draws : {0}, lo : {<<0, 0, 0, 0>>},
                   range_size : {One64}, limit : {One64}, x : {<<0, 0, 0, 0>>},
                   value : {<<0, 0, 0, 0>>}]

\* the argument checks and the computation of the range, up to the loop
RangeEnter ==
    /\ probe.phase = "call"
    /\ LET empty == IF probe.fn = "rangeInt" THEN SignedLess(probe.max, probe.min)
                                             ELSE LessBytes(probe.max, probe.min)
           lo == IF probe.fn = "rangeInt" THEN <<0, 0, 0, 0>> ELSE probe.min
           hi == IF probe.fn = "rangeInt" THEN RangeIntMax(probe.min, probe.max) ELSE probe.max
           size == RangeSize(lo, hi)
       IN  IF empty
           THEN probe' = [probe EXCEPT !.phase = "domain_error"] /\ answer' = answer
           ELSE IF size = One64
           THEN /\ probe' = [probe EXCEPT !.phase = "returned"]
                /\ answer' = [answer EXCEPT !.lo = lo, !.range_size = size,
                                            !.value = IF probe.fn = "rangeInt"
                                                      THEN Low(Add64(Wide(probe.min), Wide(lo))) ELSE lo]
           ELSE /\ probe' = [probe EXCEPT !.phase = "loop"]
                /\ answer' = [answer EXCEPT !.lo = lo, !.range_size = size,
                                            !.limit = MaxDivisibleRange(size)]
    /\ UNCHANGED <<engineVars, buttonVars, runVars, constructs, ghostVars, lifeVars, access>>

\* one turn of the loop: x = Uint(), accepted if x < max_divisible_range
RangeDraw ==
    /\ probe.phase = "loop" /\ answer.draws < MaxDraws
    /\ LET state == RandomUpdate(probe.state)
           x == High(state)
           unsigned == RangeValue(answer.lo, x, answer.range_size)
       IN  IF LessBytes(Wide(x), answer.limit)
           THEN /\ probe' = [probe EXCEPT !.state = state, !.phase = "returned"]
                /\ answer' = [answer EXCEPT !.draws = @ + 1, !.x = x,
                                            !.value = IF probe.fn = "rangeInt"
                                                      THEN Low(Add64(Wide(probe.min), Wide(unsigned)))
                                                      ELSE unsigned]
           ELSE /\ probe' = [probe EXCEPT !.state = state]
                /\ answer' = [answer EXCEPT !.draws = @ + 1, !.x = x]
    /\ UNCHANGED <<engineVars, buttonVars, runVars, constructs, ghostVars, lifeVars, access>>

NextRandom == RangeEnter \/ RangeDraw

SpecRandom == InitRandom /\ [][NextRandom]_vars


(***************************************************************************)
(* GetMousePos on engines of several sizes                                 *)
(***************************************************************************)
\* cursor offsets from the window corner, around the edges of the windows
MouseOffsets == {-1, 0, 9, 10, 239, 240, 319, 320, 479, 480, 639, 640}

MouseFailures == {"none", "SDL_CreateTexture"}

\* a call of GetMousePos(&pos) with the cursor at <<x, y>> from the window
\* corner: ret is 1 for true, 0 for false
CallGetMousePos(x, y) ==
    /\ pc \in {"idle", "returned"}
    /\ last_call' = [NoCall EXCEPT !.op = "GetMousePos", !.was_init = init,
                                   !.args = <<x, y, 0>>,
                                   !.pos = GetMousePos(x, y).out,
                                   !.has_output = GetMousePos(x, y).written,
                                   !.ret = IF GetMousePos(x, y).ret THEN 1 ELSE 0]
    /\ UNCHANGED <<engineVars, buttonVars, runVars, constructs, ghostVars,
                   handleVars, worldVars, call_log, probeVars, access>>

NextMouse ==
    \/ \E a \in ConstructArgs, f \in MouseFailures : Construct(a[1], a[2], a[3], f)
    \/ \E x \in MouseOffsets, y \in MouseOffsets : CallGetMousePos(x, y)
    \/ Exit

SpecMouse == Init /\ [][NextMouse]_vars


(***************************************************************************)
(* One key over several runs: the purge of stale events                    *)
(***************************************************************************)
\* the ghost last_down is the kind of the most recent hardware event of the
\* key, whoever consumed it
InitPurge ==
    /\ InitEngine
    /\ probe = [key |-> HardwareButton, phase |-> "idle"]
    /\ answer = [last_down |-> FALSE, events |-> 0, frames |-> 0, runs |-> 0,
                 purged |-> 0, reported |-> FALSE]

PurgeUnchanged ==
    UNCHANGED <<engineVars, buttonVars, runVars, constructs, ghostVars, lifeVars, access>>

\* Run is entered on the constructed engine
RunBegin ==
    /\ probe.phase = "idle" /\ answer.runs < MaxRuns
    /\ probe' = [probe EXCEPT !.phase = "purge"]
    /\ answer' = [answer EXCEPT !.runs = @ + 1, !.events = 0, !.frames = 0,
                                !.reported = FALSE]
    /\ PurgeUnchanged

\* lines 910-913: a stale key event is polled and dropped
PurgeKey(down) ==
    /\ probe.phase = "purge" /\ answer.events < MaxEvents
    /\ answer' = [answer EXCEPT !.last_down = down, !.events = @ + 1, !.purged = @ + 1]
    /\ UNCHANGED probe
    /\ PurgeUnchanged

\* the queue is empty: the application is created and the loop entered
PurgeEnd ==
    /\ probe.phase = "purge"
    /\ probe' = [probe EXCEPT !.phase = "events"]
    /\ answer' = [answer EXCEPT !.events = 0]
    /\ PurgeUnchanged

\* lines 951-956: a key event of the frame sets or clears down
DrainKey(down) ==
    /\ probe.phase = "events" /\ answer.events < MaxEvents
    /\ probe' = [probe EXCEPT !.key = WriteDown(@, down)]
    /\ answer' = [answer EXCEPT !.last_down = down, !.events = @ + 1, !.reported = FALSE]
    /\ PurgeUnchanged

\* lines 970-981: the key is updated and the application reads it
ReportKey ==
    /\ probe.phase = "events" /\ answer.frames < MaxFrames
    /\ probe' = [probe EXCEPT !.key = update(@)]
    /\ answer' = [answer EXCEPT !.frames = @ + 1, !.events = 0, !.reported = TRUE]
    /\ PurgeUnchanged

\* the loop ends after a frame and Run returns
RunEnd ==
    /\ probe.phase = "events" /\ answer.reported
    /\ probe' = [probe EXCEPT !.phase = "idle"]
    /\ answer' = [answer EXCEPT !.reported = FALSE]
    /\ PurgeUnchanged

NextPurge ==
    \/ RunBegin
    \/ \E down \in BOOLEAN : PurgeKey(down)
    \/ PurgeEnd
    \/ \E down \in BOOLEAN : DrainKey(down)
    \/ ReportKey
    \/ RunEnd

SpecPurge == InitPurge /\ [][NextPurge]_vars


(***************************************************************************)
(* The Game of Life demo: the grid and the raster                          *)
(***************************************************************************)
\* the frames of a run of the demo on a small raster
MaxLifeFrames == 2

ALIVE == <<0, 0, 0>>

DEAD == <<255, 255, 255>>

\* the windows the demo is run in, and where the cursor can be
LifeArgs == {<<9, 6, 3>>, <<6, 9, 3>>, <<12, 12, 3>>}

LifeCursors == {<<8, 5>>, <<5, 8>>, <<-1, 0>>}

\* the cells that Random::Double() < ratio makes alive in OnUserCreate
LifeSeeds ==
    {{}, (0 .. 3) \X (0 .. 3), {<<0, 1>>, <<1, 1>>, <<2, 1>>}, {<<0, 0>>, <<1, 1>>},
     {<<1, 0>>, <<0, 1>>, <<1, 1>>}, {<<0, 0>>, <<0, 1>>, <<0, 2>>, <<1, 1>>}}

\* the pressed flags of 'q', 'p' and 's' in a frame
LifeKeys == {<<FALSE, FALSE, FALSE>>, <<TRUE, FALSE, FALSE>>,
             <<FALSE, TRUE, FALSE>>, <<FALSE, FALSE, TRUE>>}

\* wrap(v): v.x + Width() lies between 0 and 2 * Width(), so the conversion
\* to uint32_t changes nothing
wrap(v) == <<(v[1] + GetWidth) % GetWidth, (v[2] + GetHeight) % GetHeight>>

GliderOffsets == <<(<<0, -1>>), (<<1, 0>>), (<<-1, 1>>), (<<0, 1>>), (<<1, 1>>)>>

NeighbourOffsets ==
    <<(<<-1, -1>>), (<<0, -1>>), (<<1, -1>>), (<<-1, 0>>), (<<1, 0>>),
      (<<-1, 1>>), (<<0, 1>>), (<<1, 1>>)>>

\* the members current and next and the raster, as the demo changes them
\* glider(p) from the offset i on
RECURSIVE glider(_, _, _)
glider(g, p, i) ==
    IF i > Len(GliderOffsets) THEN g
    ELSE LET pos == wrap(<<p[1] + GliderOffsets[i][1], p[2] + GliderOffsets[i][2]>>)
         IN  glider([g EXCEPT !.current = (pos :> TRUE) @@ g.current,
                              !.pixels = SetPixelOn(g.pixels, pos, ALIVE).pixels],
                    p, i + 1)

\* the living neighbours of pos in current, from the offset i on
RECURSIVE LifeSum(_, _, _)
LifeSum(g, pos, i) ==
    IF i > Len(NeighbourOffsets) THEN 0
    ELSE LET n == wrap(<<pos[1] + NeighbourOffsets[i][1], pos[2] + NeighbourOffsets[i][2]>>)
         IN  (IF g.current[n] THEN 1 ELSE 0) + LifeSum(g, pos, i + 1)

\* a loop body that writes the new cell into current
LifeCell_in_place(g, pos) ==
    LET sum == LifeSum(g, pos, 1)
        src == g.current[wrap(pos)]
        dst == IF sum = 2 THEN src ELSE sum = 3
    IN  [g EXCEPT !.current = (wrap(pos) :> dst) @@ g.current,
                  !.next = (wrap(pos) :> dst) @@ g.next,
                  !.pixels = IF sum = 2 THEN g.pixels
                             ELSE SetPixelOn(g.pixels, wrap(pos),
                                             IF sum = 3 THEN ALIVE ELSE DEAD).pixels]

\* the body of the loops of update() for the cell pos
LifeCell(g, pos) ==
    LET sum == LifeSum(g, pos, 1)
        src == g.current[wrap(pos)]
        dst == IF sum = 2 THEN src ELSE sum = 3
    IN  [g EXCEPT !.next = (wrap(pos) :> dst) @@ g.next,
                  !.pixels = IF sum = 2 THEN g.pixels
                             ELSE SetPixelOn(g.pixels, wrap(pos),
                                             IF sum = 3 THEN ALIVE ELSE DEAD).pixels]

\* update() from the cell (x, y) on: x is the outer loop
RECURSIVE LifeLoop(_, _, _)
LifeLoop(g, x, y) ==
    IF x >= GetWidth THEN g
    ELSE IF y >= GetHeight THEN LifeLoop(g, x + 1, 0)
    ELSE LifeLoop(LifeCell(g, <<x, y>>), x, y + 1)

\* tmp(std::move(current)); current = std::move(next); next = std::move(tmp)
LifeSwap(g) == [g EXCEPT !.current = g.next, !.next = g.current]

\* the toggle of the cell under the cursor
LifeToggle(g, pos) ==
    [g EXCEPT !.current = (pos :> ~g.current[pos]) @@ g.current,
              !.pixels = SetPixelOn(g.pixels, pos,
                                    IF ~g.current[pos] THEN ALIVE ELSE DEAD).pixels]

\* the loops of OnUserCreate from (x, y) on: y is the outer loop, cells holds
\* what Random::Double() < ratio gives for each cell
RECURSIVE LifeFill(_, _, _, _)
LifeFill(g, cells, x, y) ==
    IF y >= GetHeight THEN g
    ELSE IF x >= GetWidth THEN LifeFill(g, cells, 0, y + 1)
    ELSE LifeFill([g EXCEPT !.current = (<<x, y>> :> cells[<<x, y>>]) @@ g.current,
                            !.pixels = SetPixelOn(g.pixels, <<x, y>>,
                                                  IF cells[<<x, y>>] THEN ALIVE ELSE DEAD).pixels],
                  cells, x + 1, y)

\* the positions of the raster
LifePositions == (0 .. (GetWidth - 1)) \X (0 .. (GetHeight - 1))

\* no element of current and next is written before OnUserCreate
InitGrid ==
    /\ InitEngine
    /\ probe \in [pause : BOOLEAN, step : BOOLEAN, state : {"constructed"},
                  current : {<<>>}, next : {<<>>}]
    /\ answer = [frames |-> 0, generation |-> FALSE, before |-> <<>>, after |-> <<>>,
                 toggled |-> FALSE, spawned |-> FALSE]

\* main: Construct before Run
LifeConstruct(a) ==
    /\ ~init
    /\ Construct(a[1], a[2], a[3], "none")

LifeUnchanged ==
    UNCHANGED <<engineVars, buttonVars, runVars, constructs, ghostVars,
                handleVars, sdl, native, heap, call_log, last_call, access>>

\* GameOfLife::OnUserCreate: false, before any cell is set, when the ratio
\* given is out of range
LifeCreate(cells, ok) ==
    /\ init /\ probe.state = "constructed"
    /\ LET g == [current |-> <<>>, next |-> <<>>, pixels |-> pixels]
           filled == IF ok THEN LifeFill(g, cells, 0, 0) ELSE g
       IN  /\ probe' = [pause |-> FALSE, step |-> FALSE,
                        state |-> IF ok THEN "running" ELSE "failed",
                        current |-> filled.current, next |-> filled.next]
           /\ pixels' = filled.pixels
    /\ UNCHANGED answer
    /\ LifeUnchanged

\* GameOfLife::OnUserUpdate with the pressed flags of the keys and of the
\* mouse buttons, the cursor being at <<x, y>>
LifeFrame(keys, left, right, cursor) ==
    /\ probe.state = "running" /\ answer.frames < MaxLifeFrames
    /\ \E u \in {LifeUpdate(probe, keys[1], keys[2], keys[3])},
          g0 \in {[current |-> probe.current, next |-> probe.next, pixels |-> pixels]},
          mouse \in {GetMousePos(cursor[1], cursor[2])} :
       \E g1 \in {IF u.generation THEN LifeSwap(LifeLoop(g0, 0, 0)) ELSE g0} :
       \E g2 \in {IF u.ret /\ left /\ mouse.ret THEN LifeToggle(g1, mouse.out) ELSE g1} :
       \E g3 \in {IF u.ret /\ right /\ mouse.ret THEN glider(g2, mouse.out, 1) ELSE g2} :
           /\ probe' = [pause |-> u.pause, step |-> u.step,
                        state |-> IF u.ret THEN "running" ELSE "stopped",
                        current |-> g3.current, next |-> g3.next]
           /\ pixels' = g3.pixels
           /\ answer' = [frames |-> answer.frames + 1, generation |-> u.generation,
                         before |-> IF u.generation THEN probe.current ELSE <<>>,
                         after |-> IF u.generation THEN g1.current ELSE <<>>,
                         toggled |-> u.ret /\ left /\ mouse.ret,
                         spawned |-> u.ret /\ right /\ mouse.ret]
    /\ LifeUnchanged

NextGrid ==
    \/ \E a \in LifeArgs : LifeConstruct(a)
    \/ \E seed \in LifeSeeds, ok \in BOOLEAN :
           LifeCreate([pos \in (0 .. 3) \X (0 .. 3) |-> pos \in seed], ok)
    \/ \E keys \in LifeKeys, left \in BOOLEAN, right \in BOOLEAN, cursor \in LifeCursors :
           LifeFrame(keys, left, right, cursor)

SpecGrid == InitGrid /\ [][NextGrid]_vars


(***************************************************************************)
(* Rectangle                                                               *)
(***************************************************************************)
\* the window the rectangles are drawn in, and the corners given
RectArgs == {<<4, 3, 1>>}

RectCorners == (0 .. 3) \X (0 .. 2)

Min(a, b) == IF a < b THEN a ELSE b

Max(a, b) == IF a > b THEN a ELSE b

\* Rectangle(corner, opposite_corner, outline, fill)
Rectangle(corner, opposite_corner, outline, fill) ==
    [made |-> TRUE,
     top_left |-> <<Min(corner[1], opposite_corner[1]), Min(corner[2], opposite_corner[2])>>,
     bottom_right |-> <<Max(corner[1], opposite_corner[1]), Max(corner[2], opposite_corner[2])>>,
     outline |-> outline, fill |-> fill]

NoRectangle ==
    [made |-> FALSE, top_left |-> <<0, 0>>, bottom_right |-> <<0, 0>>,
     outline |-> <<0, 0, 0>>, fill |-> <<0, 0, 0>>]

\* the first loop of Draw from x on: the top and the bottom side
RECURSIVE DrawSides(_, _, _)
DrawSides(px, r, x) ==
    IF x >= r.bottom_right[1] THEN px
    ELSE DrawSides(SetPixelOn(SetPixelOn(px, <<x, r.top_left[2]>>, r.outline).pixels,
                              <<x, r.bottom_right[2]>>, r.outline).pixels,
                   r, x + 1)

\* the second loop of Draw from y on: the left and the right side
RECURSIVE DrawEnds(_, _, _)
DrawEnds(px, r, y) ==
    IF y >= r.bottom_right[2] THEN px
    ELSE DrawEnds(SetPixelOn(SetPixelOn(px, <<r.top_left[1], y>>, r.outline).pixels,
                             <<r.bottom_right[1], y>>, r.outline).pixels,
                  r, y + 1)

\* Rectangle::Draw on the pixels px
Draw(px, r) == DrawEnds(DrawSides(px, r, r.top_left[1]), r, r.top_left[2])

InitRect ==
    /\ InitEngine
    /\ probe = NoRectangle
    /\ answer = [drawn |-> FALSE, before |-> <<>>]

RectConstruct(a) ==
    /\ ~init
    /\ Construct(a[1], a[2], a[3], "none")

RectClear(color) ==
    /\ ~answer.drawn
    /\ Clear(color)

MakeRectangle(corner, opposite_corner, outline) ==
    /\ ~probe.made
    /\ probe' = Rectangle(corner, opposite_corner, outline, outline)
    /\ UNCHANGED <<engineVars, buttonVars, runVars, constructs, ghostVars, lifeVars,
                   answer, access>>

DrawRectangle ==
    /\ probe.made /\ ~answer.drawn
    /\ pixels' = Draw(pixels, probe)
    /\ answer' = [drawn |-> TRUE, before |-> pixels]
    /\ UNCHANGED <<engineVars, buttonVars, runVars, constructs, ghostVars,
                   handleVars, sdl, native, heap, call_log, last_call, probe, access>>

NextRect ==
    \/ \E a \in RectArgs : RectConstruct(a)
    \/ \E color \in Colors : RectClear(color)
    \/ \E corner \in RectCorners, opposite_corner \in RectCorners, outline \in Colors :
           MakeRectangle(corner, opposite_corner, outline)
    \/ DrawRectangle

SpecRect == InitRect /\ [][NextRect]_vars


(***************************************************************************)
(* Properties                                                              *)
(***************************************************************************)
\* the states of an iteration in which the debounce step is over
Debounced == pc \in {"update", "display", "finalize"} \/ (pc = "timing" /\ frame > 0)

EdgesOf(b, fd) ==
    /\ b.pressed = (fd[2] /\ ~fd[1])
    /\ b.released = (~fd[2] /\ fd[1])
    /\ ~(b.pressed /\ b.released)

\* C1: for every button, pressed is true after update() exactly when the raw
\* down value of this frame is true and the one of the previous frame was
\* false, released exactly when it went from true to false, and the two are
\* never true together.
C1_EdgeFlags ==
    /\ \A i \in MouseIdx : EdgesOf(mouse_state[i], frame_down.mouse[i])
    /\ \A i \in KeyIdx : EdgesOf(keyboard_state[i], frame_down.keys[i])
    /\ Debounced =>
         /\ \A i \in MouseIdx : mouse_state[i].down = frame_down.mouse[i][2]
         /\ \A i \in KeyIdx : keyboard_state[i].down = frame_down.keys[i][2]

\* a frame in which 'q' is released while the right mouse button is pressed
C1_Witness ==
    /\ pc = "update"
    /\ keyboard_state[16].released /\ frame_down.keys[16] = <<TRUE, FALSE>>
    /\ mouse_state[1].pressed /\ frame_down.mouse[1] = <<FALSE, TRUE>>

\* C2: after a fresh Construct(640,480,10), in the frame where a single
\* key-down of 'q' is drained the application reads pressed = true; in the
\* later frames, until a key-up of 'q' is drained, it reads down = true and
\* pressed = false; in the frame of the key-up it reads released = true, and
\* released = false in the frames after it.
C2_KeyScenario ==
    (pc = "update" /\ init /\ window_width = 640 /\ window_height = 480 /\ pixel_size = 10) =>
        LET q == GetButton(ButtonKey(113)) IN
        /\ q_phase = "pressed" => q.pressed /\ q.down
        /\ q_phase = "held" => q.down /\ ~q.pressed /\ ~q.released
        /\ q_phase = "released" => q.released /\ ~q.down
        /\ q_phase = "after" => ~q.released /\ ~q.pressed /\ ~q.down

AllUpdated(n) ==
    /\ \A i \in MouseIdx : upd_count.mouse[i] = n
    /\ \A i \in KeyIdx : upd_count.keys[i] = n

\* C3: in every iteration update() runs exactly once on each of the 2 mouse
\* and 26 keyboard buttons, only after the event queue of the iteration has
\* been drained, and OnUserUpdate of the iteration runs only after all of them.
C3_UpdateOncePerFrame ==
    /\ \A i \in MouseIdx : upd_count.mouse[i] <= 1
    /\ \A i \in KeyIdx : upd_count.keys[i] <= 1
    /\ ~AllUpdated(0) => obs.drained
    /\ obs.updated => AllUpdated(1)
    /\ Debounced => AllUpdated(1)
    /\ pc = "events" => AllUpdated(0) /\ ~obs.updated

\* the second iteration, after events were applied, debounced and updated
C3_Witness ==
    /\ pc = "display" /\ frame = 2 /\ obs.updated /\ AllUpdated(1)
    /\ keyboard_state[16].down /\ mouse_state[1].down

CreateSucceeded == obs.OnUserCreate = 1 /\ ~obs.create_failed

\* C4: when Run has returned, OnUserDestroy has been called once if
\* OnUserCreate returned success and not at all otherwise, whatever ended the
\* loop; it is never called while the loop is running.
C4_DestroyIffCreated ==
    /\ pc = "returned" => obs.OnUserDestroy = (IF CreateSucceeded THEN 1 ELSE 0)
    /\ pc /= "returned" => obs.OnUserDestroy = 0

\* a run ended by a present failure, finalized once
C4_Witness ==
    pc = "returned" /\ CreateSucceeded /\ obs.present_failed /\ obs.OnUserDestroy = 1

\* C5: every application instance constructed by Run is destroyed before Run
\* returns, on every exit path.
C5_AppDestroyed == pc = "returned" => app /= "live"

\* C6: Run returns failure exactly when the engine was not ready, initialize
\* failed, or some OnUserUpdate or present step failed; otherwise (stop or quit)
\* it returns success; a failure status is never reset to success in a run.
C6_ReturnStatus ==
    /\ [](pc = "returned" /\ runs > 0 =>
            /\ retval \in {EXIT_SUCCESS, EXIT_FAILURE}
            /\ (retval = EXIT_FAILURE) =
                  (obs.not_ready \/ obs.create_failed \/ obs.update_threw \/ obs.present_failed))
    /\ [][(status = EXIT_FAILURE /\ runs' = runs) => status' = EXIT_FAILURE]_vars

\* a run in which a quit event was drained and OnUserUpdate raised, presented correctly
C6_Witness ==
    /\ pc = "returned" /\ retval = EXIT_FAILURE
    /\ obs.update_threw /\ ~obs.present_failed /\ obs.loop_quit

C8_StaleQuit ==
    obs.purge_quit =>
        /\ pc = "returned" /\ retval = EXIT_SUCCESS
        /\ obs.ctor = 0 /\ obs.OnUserCreate = 0
        /\ obs.OnUserUpdate = 0 /\ obs.OnUserDestroy = 0
        /\ app = "unset"

\* a second run, started while 'q' is still down, that meets a stale quit
C8_Witness == pc = "returned" /\ obs.purge_quit /\ init /\ runs = 2 /\ keyboard_state[16].down

C10_PresentFails ==
    /\ [](obs.present_failed =>
            /\ pc \in {"finalize", "returned"}
            /\ pc = "finalize" => end /\ status = EXIT_FAILURE
            /\ pc = "returned" => retval = EXIT_FAILURE /\ obs.OnUserDestroy = 1)
    /\ [][(obs.present_failed /\ runs' = runs) =>
            /\ frame' = frame
            /\ obs'.present = obs.present
            /\ obs'.OnUserUpdate = obs.OnUserUpdate
            /\ obs'.debounce = obs.debounce]_vars

\* the present step failed in the second frame, after a successful update
C10_Witness ==
    /\ pc = "returned" /\ obs.present_failed /\ ~obs.update_threw /\ ~obs.update_stop
    /\ ~obs.loop_quit /\ obs.present = 2 /\ obs.OnUserDestroy = 1

(***************************************************************************)
(* Lifecycle of the engine                                                 *)
(***************************************************************************)
\* the step is a call of Construct
ConstructStep == constructs' = constructs + 1

\* everything the engine owns or remembers
EngineState == <<init, window_width, window_height, texture_width, texture_height,
                 pixel_size, window, renderer, texture, data, mouse_state,
                 keyboard_state, sdl, native, heap, pixels>>

\* C11: a Construct call with invalid arguments (pixel size 0, or a width
\* or height that is not a multiple of the pixel size) fails and leaves the
\* init flag, the handles, the raster, the buttons and every resource as they
\* were, on an uninitialized and on a ready engine.
C11_InvalidConstructNoEffect ==
    [][(ConstructStep /\ ConstructInvalid(last_call'.args[1], last_call'.args[2],
                                          last_call'.args[3]) /= "")
         => /\ last_call'.ret = -1
            /\ UNCHANGED EngineState]_vars

\* the arguments and the injected backend failure of the call just made
BadArgs(w, h, p) == p = 0 \/ w % p /= 0 \/ h % p /= 0

\* C12: Construct(w, h, p) fails when p = 0 or w or h is not a multiple of
\* p; otherwise, when the backend succeeds, it succeeds and GetWidth() = w / p
\* and GetHeight() = h / p. Construct(100,100,0) and Construct(100,101,10)
\* fail, Construct(640,480,10) gives a 64 x 48 raster.
C12_ConstructDimensions ==
    [][ConstructStep =>
         LET c == last_call'
             w == c.args[1]
             h == c.args[2]
             p == c.args[3]
         IN  /\ BadArgs(w, h, p) => c.ret = -1 /\ ~init'
             /\ (~BadArgs(w, h, p) /\ c.fail = "none") =>
                   /\ c.ret = 0 /\ init'
                   /\ GetWidth' = w \div p
                   /\ GetHeight' = h \div p
             /\ c.args \in {<<100, 100, 0>>, <<100, 101, 10>>} => c.ret = -1
             /\ (c.args = <<640, 480, 10>> /\ c.fail = "none") =>
                   c.ret = 0 /\ GetWidth' = 64 /\ GetHeight' = 48]_vars

\* Construct(640,480,10) succeeded on an engine that was ready with other
\* dimensions
C12_Witness ==
    /\ last_call.op = "Construct" /\ last_call.args = <<640, 480, 10>>
    /\ last_call.ret = 0 /\ last_call.was_init
    /\ GetWidth = 64 /\ GetHeight = 48

Releases == {"SDL_DestroyTexture", "SDL_DestroyRenderer", "SDL_DestroyWindow",
             "SDL_QuitSubSystem", "SDL_Quit", "free"}

\* C13: when Construct succeeds on an engine that is already ready, the
\* engine is ready with the dimensions of the second call, the window, the
\* renderer, the texture and the raster buffer of the first call are all
\* released, and every release happens before the first acquisition of the
\* second call.
C13_Reconstruct ==
    [][(ConstructStep /\ init /\ last_call'.ret = 0) =>
         LET w == last_call'.args[1]
             h == last_call'.args[2]
             p == last_call'.args[3]
             n == Len(call_log')
             k == Cardinality(Releases)
         IN  /\ init' /\ GetWidth' = w \div p /\ GetHeight' = h \div p
             /\ data'.rows = h \div p /\ data'.cols = w \div p
             /\ Held \cap native' = {}
             /\ data.ptr \notin heap' /\ data'.ptr \in heap' /\ Held' \subseteq native'
             /\ n = k + Len(Acquisitions)
             /\ {call_log'[i] : i \in 1 .. k} = Releases
             /\ \A i \in 1 .. Len(Acquisitions) : call_log'[k + i] = Acquisitions[i]]_vars

\* a 16 x 12 engine built over an engine that was ready, holding only the
\* resources of the second call
C13_Witness ==
    /\ last_call.op = "Construct" /\ last_call.was_init /\ last_call.ret = 0
    /\ last_call.args = <<320, 240, 20>> /\ init /\ GetWidth = 16 /\ GetHeight = 12
    /\ constructs = 2 /\ native = Held /\ heap = {data.ptr} /\ window = 2

\* C14: over any sequence of Construct calls, including calls that fail at
\* any backend step, no resource leaks: every live native object is one the
\* engine still holds, every live buffer is the raster's, the backend is
\* initialised only for an engine that is ready, and nothing is left when the
\* process has exited.
C14_NoLeak ==
    /\ native \subseteq Held
    /\ heap \subseteq {data.ptr}
    /\ sdl => init
    /\ pc = "exited" => native = {} /\ heap = {} /\ ~sdl

BackendFailures == {Acquisitions[k] : k \in 1 .. Len(Acquisitions)}

\* C15: a Construct call that fails at a backend acquisition returns failure
\* and leaves the engine uninitialized (init false, GetWidth() = GetHeight()
\* = 0), whether the engine was uninitialized or ready before the call.
C15_BackendFailure ==
    [][(ConstructStep /\ last_call'.fail \in BackendFailures) =>
         /\ last_call'.ret = -1
         /\ ~init'
         /\ GetWidth' = 0 /\ GetHeight' = 0]_vars

\* SDL_CreateTexture failed in a Construct called on a ready engine
C15_Witness ==
    /\ last_call.op = "Construct" /\ last_call.fail = "SDL_CreateTexture"
    /\ last_call.was_init /\ last_call.ret = -1
    /\ ~init /\ texture_width > 0 /\ GetWidth = 0 /\ GetHeight = 0

\* the step runs ~GameEngine: Construct on a ready engine, or process exit
ExitStep == pc' \in {"exited", "aborted"} /\ pc \notin {"exited", "aborted"}

\* the releases in the reverse of the order of Acquisitions
ReverseOrder == <<"free", "SDL_DestroyTexture", "SDL_DestroyRenderer", "SDL_DestroyWindow",
                  "SDL_QuitSubSystem", "SDL_Quit">>

\* C16: the teardown of a ready engine releases the resources in the exact
\* reverse of the order in which Construct acquired them (raster first, then
\* texture, renderer, window, backend); the teardown of an uninitialized
\* engine releases nothing and changes no state.
C16_TeardownOrder ==
    [][/\ (init /\ (ExitStep \/ ConstructStep)) =>
             /\ Len(call_log') >= Len(ReverseOrder)
             /\ SubSeq(call_log', 1, Len(ReverseOrder)) = ReverseOrder
       /\ (~init /\ ExitStep) =>
             /\ call_log' = <<>>
             /\ pc' = "exited"
             /\ UNCHANGED EngineState]_vars

\* C17: while the engine is not ready (never constructed, torn down, or
\* after a failed Construct), GetWidth and GetHeight return 0, SetPixel changes
\* nothing, GetPixel and GetMousePos return false, GetButton returns an
\* all-false HardwareButton, WaitMs does not sleep, and none of them raises,
\* for every argument, out-of-range positions included.
C17_NotReadyNeutral ==
    /\ [](~init =>
            /\ GetWidth = 0 /\ GetHeight = 0
            /\ \A pos \in Positions, c \in Colors :
                   SetPixelEffect(pos, c) = [raises |-> FALSE, pixels |-> pixels]
            /\ \A pos \in Positions, has_output \in BOOLEAN :
                   GetPixel(pos, has_output) = [ret |-> FALSE, raises |-> FALSE]
            /\ \A x \in Offsets, y \in Offsets :
                   ~GetMousePos(x, y).ret /\ ~GetMousePos(x, y).written
            /\ \A b \in Buttons : GetButton(b) = HardwareButton
            /\ \A ms \in Durations : WaitMs(ms) = 0)
    /\ [][(~init /\ last_call'.op = "SetPixel") =>
            /\ last_call'.ret = 0
            /\ UNCHANGED EngineState]_vars

\* SetPixel called on an engine torn down by a failed Construct, whose raster
\* fields still describe the 64 x 48 buffer of the engine before it
C17_Witness ==
    /\ last_call.op = "SetPixel" /\ ~last_call.was_init /\ ~init
    /\ constructs = 2 /\ data.rows = 48 /\ data.ptr /= 0 /\ texture_width = 64

\* C18: after every successful Construct each of the 2 mouse and 26
\* keyboard buttons is in the initial state (down = pressed = released =
\* previous = false), whatever its state was before the call.
C18_ButtonsReset ==
    [][(ConstructStep /\ last_call'.ret = 0) =>
         /\ \A i \in MouseIdx : mouse_state'[i] = HardwareButton
         /\ \A i \in KeyIdx : keyboard_state'[i] = HardwareButton
         /\ DOMAIN mouse_state' = MouseIdx /\ DOMAIN keyboard_state' = KeyIdx]_vars

\* a successful Construct made after a run that left buttons down
C18_Witness ==
    /\ last_call.op = "Construct" /\ last_call.ret = 0 /\ last_call.dirty
    /\ init /\ ~Dirty /\ pc = "returned" /\ runs > 0

(***************************************************************************)
(* Button identifiers                                                      *)
(***************************************************************************)
\* C19: Button::valid returns true with index 0 for Mouse(1) = LEFT and
\* index 1 for Mouse(2) = RIGHT, true with index c - 'a' for Keyboard(c) with
\* c in 'a'..'z', and false for every other Button (Keyboard('A'),
\* Keyboard('0'), Mouse(0), Mouse(3) among them); when it returns true the
\* index is smaller than the size of the array of that category (2 mouse
\* slots, 26 keyboard slots).
C19_ValidIndex ==
    answer.called =>
        /\ probe = ButtonMouse(1) => answer.ret /\ answer.index = 0
        /\ probe = ButtonMouse(2) => answer.ret /\ answer.index = 1
        /\ (probe.tag = "KEYBOARD" /\ probe.val \in 97 .. 122) =>
               answer.ret /\ answer.index = probe.val - 97
        /\ (probe.tag = "MOUSE" /\ probe.val \notin {1, 2}) => ~answer.ret
        /\ (probe.tag = "KEYBOARD" /\ probe.val \notin 97 .. 122) => ~answer.ret
        /\ probe \in {ButtonKey(65), ButtonKey(48), ButtonMouse(0), ButtonMouse(3)} => ~answer.ret
        /\ LEFT = 1 /\ RIGHT = 2
        /\ answer.ret =>
               /\ answer.index >= 0
               /\ probe.tag = "MOUSE" => answer.index < 2 /\ answer.index \in DOMAIN mouse_state
               /\ probe.tag = "KEYBOARD" => answer.index < 26 /\ answer.index \in DOMAIN keyboard_state

\* valid() answered true with the last keyboard slot for Keyboard('z')
C19_Witness ==
    answer.called /\ probe = ButtonKey(122) /\ answer.ret /\ answer.index = 25

\* the Buttons the contract calls valid
ValidButton(b) ==
    \/ b.tag = "MOUSE" /\ b.val \in {1, 2}
    \/ b.tag = "KEYBOARD" /\ b.val \in 97 .. 122

\* an access uses a slot of the array of its Button's kind, and the Button is valid
SafeAccess(a) ==
    a.array /= "none" =>
        /\ ValidButton(a.button)
        /\ a.array = "mouse_state" => a.button.tag = "MOUSE" /\ a.index \in DOMAIN mouse_state
        /\ a.array = "keyboard_state" =>
               a.button.tag = "KEYBOARD" /\ a.index \in DOMAIN keyboard_state

\* Buttons asked of GetButton: both ends of each valid range, their
\* neighbours, and the ends of the value ranges
AskedButtons ==
    {ButtonMouse(i) : i \in {0, 1, 2, 3, 255}}
    \cup {ButtonKey(c) : c \in {-128, -1, 0, 48, 65, 96, 97, 113, 122, 123, 127, 255}}

\* C20: GetButton and the input step of Run never read or write
\* mouse_state or keyboard_state with an index derived from an invalid Button,
\* and GetButton of an invalid Button returns a HardwareButton with down =
\* pressed = released = false in every state of the engine.
C20_InvalidNeverIndexes ==
    /\ SafeAccess(access)
    /\ \A b \in AskedButtons :
           LET a == GetButtonAccess(b)
               state == GetButton(b)
           IN  IF ValidButton(b)
               THEN SafeAccess(a)
               ELSE /\ a.array = "none"
                    /\ ~state.down /\ ~state.pressed /\ ~state.released

\* a key-down of 'A' was drained and ignored while 'q' is down on a ready engine
C20_Witness ==
    /\ pc = "events" /\ init /\ access.array = "none" /\ access.button = ButtonKey(65)
    /\ keyboard_state[16].down /\ keyboard_state[16].previous
    /\ GetButton(ButtonKey(65)) = HardwareButton

(***************************************************************************)
(* Input translation and debounce                                          *)
(***************************************************************************)
\* the step translates one key event
TranslateStep == polled' = polled + 1 /\ probe' \in KeyEvents

\* C21: a key-down or key-up event whose 32-bit key code is not the ASCII
\* code of one of 'a'..'z' changes the down flag of no button; a code that
\* differs from a letter's code only above the low 8 bits is ignored.
C21_ForeignKeysIgnored ==
    [][(TranslateStep /\ probe'.code \notin 97 .. 122) =>
         /\ \A i \in KeyIdx : keyboard_state'[i].down = keyboard_state[i].down
         /\ \A i \in MouseIdx : mouse_state'[i].down = mouse_state[i].down]_vars

UpdateStep == answer'.updates = answer.updates + 1

\* a button nothing has happened to since its last update(): up, no edge
SteadyUp(b) == ~b.down /\ ~b.pressed /\ ~b.released /\ ~b.previous

\* C22: if, starting from the steady-up state, the down flag of a button
\* is set and cleared again by the events drained in one frame, that frame
\* reports pressed = released = down = false, and so does every following
\* frame without events, exactly as if no event had occurred.
C22_TapWithinFrame ==
    [][UpdateStep =>
         /\ (answer.writes = <<TRUE, FALSE>> /\ SteadyUp([probe EXCEPT !.down = FALSE])) =>
                /\ ~probe'.pressed /\ ~probe'.released /\ ~probe'.down
                /\ probe' = update(HardwareButton)
         /\ (answer.writes = <<>> /\ SteadyUp(probe)) =>
                ~probe'.pressed /\ ~probe'.released /\ ~probe'.down /\ SteadyUp(probe')]_vars

\* the second frame drained a down and an up event of a button that was
\* steady up, and update() has run
C22_Witness ==
    /\ answer.updates = 2 /\ answer.before = <<TRUE, FALSE>> /\ answer.writes = <<>>
    /\ SteadyUp(answer.was) /\ SteadyUp(probe)

\* C23: a freshly constructed HardwareButton has down = pressed = released
\* = false, and any number of update() calls with no change of down keeps all
\* three false.
C23_FreshStaysUp ==
    ~answer.touched => ~probe.down /\ ~probe.pressed /\ ~probe.released

\* a button that was never written, after two update() calls
C23_Witness ==
    ~answer.touched /\ answer.updates = 2 /\ probe = HardwareButton

(***************************************************************************)
(* Raster                                                                  *)
(***************************************************************************)
\* the element addressed lies inside the buffer the matrix allocated
InsideBuffer == LessBytes(answer.offset, probe.alloc \o <<0>>)

\* C24: for a matrix constructed with (rows, cols) >= (1, 1), the access
\* of (row, col) succeeds, on the element row * cols + col of the buffer,
\* whenever row < rows and col < cols, and raises out_of_range whenever row >=
\* rows or col >= cols; a position is read with x as column and y as row;
\* nothing is clamped or wrapped around.
C24_BoundsChecked ==
    answer.called =>
        LET row == answer.pos[2]
            col == answer.pos[1]
        IN  /\ (row < probe.rows /\ col < probe.cols) => ~answer.raises /\ InsideBuffer
            /\ (row >= probe.rows \/ col >= probe.cols) => answer.raises
            /\ (~answer.raises /\ probe.rows < 256 /\ probe.cols < 256) =>
                   answer.offset = ToBytes(row * probe.cols + col) \o <<0>>

\* C26: for all r, g, b in 0..255 the packed word of Color(r, g, b) is
\* r * 2^24 + g * 2^16 + b * 2^8 + 255 (bytes 255, b, g, r from the low end),
\* and the Color built from that word is (r, g, b) again; the Color built from
\* any 32-bit word does not depend on its low byte.
C26_ColorRoundTrip ==
    /\ (probe.kind = "Color" /\ answer.packed) =>
           /\ answer.word = <<255, probe.val[3], probe.val[2], probe.val[1]>>
           /\ answer.unpacked => answer.color = probe.val
    /\ (probe.kind = "uint32_t" /\ answer.unpacked) =>
           /\ answer.color = <<probe.val[4], probe.val[3], probe.val[2]>>
           /\ \A low \in 0 .. 255 :
                  U32ToColor(<<low, probe.val[2], probe.val[3], probe.val[4]>>) = answer.color

\* Color(128, 255, 1) packed and unpacked again
C26_Witness ==
    /\ probe = [kind |-> "Color", val |-> <<128, 255, 1>>]
    /\ answer.packed /\ answer.word = <<255, 1, 255, 128>>
    /\ answer.unpacked /\ answer.color = <<128, 255, 1>>

\* C25: on a ready engine SetPixel(pos, c) with pos inside the raster changes
\* exactly the pixel at pos, so that a following GetPixel(pos) yields c, and
\* leaves every other pixel as it was; SetPixel or GetPixel with pos outside
\* the raster raises out_of_range and leaves every pixel as it was.
C25_SetThenGet ==
    /\ [][(init /\ last_call'.op = "SetPixel") =>
            IF InRaster(last_call'.pos)
            THEN /\ last_call'.ret = 0
                 /\ DOMAIN pixels' = DOMAIN pixels \cup {last_call'.pos}
                 /\ \A q \in DOMAIN pixels' \ {last_call'.pos} : pixels'[q] = pixels[q]
                 /\ pixels'[last_call'.pos] = ColorToU32(last_call'.color)
                 /\ U32ToColor(pixels'[last_call'.pos]) = last_call'.color
            ELSE last_call'.ret = -1 /\ pixels' = pixels]_vars
    /\ [][(init /\ last_call'.op = "GetPixel" /\ last_call'.has_output) =>
            /\ pixels' = pixels
            /\ IF InRaster(last_call'.pos)
               THEN last_call'.ret = 1 /\ last_call'.color \in GetPixelOutputs(last_call'.pos)
               ELSE last_call'.ret = -1]_vars
    /\ [][(init /\ last_call.op = "SetPixel" /\ last_call.ret = 0
                /\ last_call'.op = "GetPixel" /\ last_call'.has_output
                /\ last_call'.pos = last_call.pos) =>
            last_call'.ret = 1 /\ last_call'.color = last_call.color]_vars

\* GetPixel((15, 11)) yielding (255, 128, 1) on a 64 x 48 raster in which
\* another pixel holds another colour
C25_Witness ==
    /\ init /\ data.rows = 48 /\ data.cols = 64
    /\ last_call.op = "GetPixel" /\ last_call.pos = <<15, 11>>
    /\ last_call.ret = 1 /\ last_call.color = <<255, 128, 1>>
    /\ <<0, 0>> \in DOMAIN pixels /\ pixels[<<0, 0>>] = ColorToU32(<<0, 0, 0>>)

(***************************************************************************)
(* Matrix copies and moves                                                 *)
(***************************************************************************)
CopyStep == answer'.count = answer.count + 1 /\ answer'.last.op \in {"copy construct", "copy assign"}

MoveStep == answer'.count = answer.count + 1 /\ answer'.last.op \in {"move construct", "move assign"}

WriteStep == answer'.count = answer.count + 1 /\ answer'.last.op = "write"

\* C27: copy-constructing or copy-assigning a matrix gives the target the
\* dimensions and element values of the source in a buffer of its own, and a
\* later write to either matrix changes no element of any other matrix;
\* move-constructing or move-assigning from another matrix gives the target
\* the buffer of the source and leaves the source with rows = cols = 0 and no
\* buffer.
C27_CopyAndMove ==
    /\ [][CopyStep =>
            LET t == answer'.last.target
                s == answer'.last.source
            IN  /\ probe'.objs[t].rows = probe.objs[s].rows
                /\ probe'.objs[t].cols = probe.objs[s].cols
                /\ Buffer(probe', probe'.objs[t]) = Buffer(probe, probe.objs[s])
                /\ probe'.objs[s] = probe.objs[s]
                /\ Buffer(probe', probe'.objs[s]) = Buffer(probe, probe.objs[s])
                /\ t /= s => /\ probe'.objs[t].ptr \in DOMAIN probe'.heap
                             /\ probe'.objs[t].ptr /= probe'.objs[s].ptr]_vars
    /\ [][WriteStep =>
            \A o \in probe.live \ {answer'.last.target} :
                /\ probe'.objs[o] = probe.objs[o]
                /\ Buffer(probe', probe'.objs[o]) = Buffer(probe, probe.objs[o])]_vars
    /\ [][(MoveStep /\ answer'.last.target /= answer'.last.source) =>
            LET t == answer'.last.target
                s == answer'.last.source
            IN  /\ probe'.objs[t] = probe.objs[s]
                /\ Buffer(probe', probe'.objs[t]) = Buffer(probe, probe.objs[s])
                /\ probe'.objs[s] = Tmat2D]_vars

\* a matrix copied from another and then written to, the two now differing
C27_Witness ==
    /\ answer.prev.op \in {"copy construct", "copy assign"}
    /\ answer.prev.target /= answer.prev.source
    /\ answer.last.op = "write" /\ answer.last.target = answer.prev.target
    /\ probe.objs[answer.prev.target].rows = probe.objs[answer.prev.source].rows
    /\ Buffer(probe, probe.objs[answer.prev.target]) /= Buffer(probe, probe.objs[answer.prev.source])

(***************************************************************************)
(* Raster dimensions                                                       *)
(***************************************************************************)
\* C28: whenever the engine is ready, the raster has window_height /
\* pixel_size rows and window_width / pixel_size columns, GetHeight() and
\* GetWidth() return these, and rows * pixel_size = window_height and cols *
\* pixel_size = window_width, after any sequence of successful and failed
\* Construct calls.
C28_RasterDimensions ==
    init =>
        /\ pixel_size > 0
        /\ data.rows = window_height \div pixel_size
        /\ data.cols = window_width \div pixel_size
        /\ GetHeight = data.rows /\ GetWidth = data.cols
        /\ data.rows * pixel_size = window_height
        /\ data.cols * pixel_size = window_width

\* a ready engine with a raster that is not square, built by the second
\* Construct call, the first having failed
C28_Witness ==
    /\ init /\ constructs = 2 /\ last_call.op = "Construct" /\ ~last_call.was_init
    /\ data.rows /= data.cols /\ data.rows > 0 /\ pixel_size > 1

\* C29: on a ready engine Clear(c) sets every pixel of the raster (every x <
\* GetWidth(), y < GetHeight()) to the packed word of c and raises no
\* out_of_range, whatever the shape of the raster; on an engine that is not
\* ready it changes nothing.
C29_ClearFills ==
    [][(last_call'.op = "Clear") =>
         IF init
         THEN /\ last_call'.ret = 0
              /\ DOMAIN pixels' = (0 .. data.cols - 1) \X (0 .. data.rows - 1)
              /\ \A x \in 0 .. GetWidth - 1, y \in 0 .. GetHeight - 1 :
                     pixels'[<<x, y>>] = ColorToU32(last_call'.color)
              /\ UNCHANGED <<engineVars, handleVars, sdl, native, heap>>
         ELSE last_call'.ret = 0 /\ UNCHANGED EngineState]_vars

\* Clear made on a raster of 2 rows and 3 columns
C29_Witness ==
    /\ init /\ data.rows = 2 /\ data.cols = 3
    /\ last_call.op = "Clear" /\ last_call.was_init /\ last_call.ret = 0
    /\ pixels[<<2, 1>>] = ColorToU32(<<255, 128, 1>>)

\* Clear made on an engine that a failed Construct left not ready
C29_WitnessNotReady ==
    /\ ~init /\ constructs > 0 /\ last_call.op = "Clear" /\ ~last_call.was_init

(***************************************************************************)
(* Game of Life: pause and single step                                     *)
(***************************************************************************)
\* C30: in the Game of Life demo a pressed 'p' toggles pause; a frame that
\* starts not paused computes a generation; a frame that starts paused
\* computes a generation only if 's' was pressed, the game being paused, in
\* an earlier frame with no generation computed since that press, and each
\* such press gives exactly one generation, computed in the next frame,
\* after which the game is paused again.
C30_PauseAndStep ==
    LET F == answer.frames
    IN  /\ answer.generations = Cardinality({i \in 1 .. Len(F) : F[i].generation})
        /\ \A i \in 1 .. Len(F) :
              /\ i = 1 => ~F[i].paused
              /\ i < Len(F) => F[i].ret /\ F[i + 1].paused = F[i].paused_after
              /\ F[i].ret => F[i].paused_after = (IF F[i].p THEN ~F[i].paused ELSE F[i].paused)
              /\ ~F[i].paused => F[i].generation
              /\ (F[i].paused /\ F[i].generation) =>
                     \E j \in 1 .. i - 1 :
                         /\ F[j].s /\ F[j].paused_after
                         /\ \A k \in j + 1 .. i - 1 : ~F[k].generation
              /\ (i < Len(F) /\ F[i].s /\ F[i].paused_after) => F[i + 1].generation
              /\ (i < Len(F) /\ F[i].paused_after /\ ~F[i].s) => ~F[i + 1].generation

\* 'p' pressed in the first frame, 's' in the second, one generation in the
\* third and none in the fourth
C30_Witness ==
    LET F == answer.frames
    IN  /\ Len(F) = 4
        /\ F[1].p /\ F[1].generation /\ F[1].paused_after
        /\ F[2].paused /\ ~F[2].generation /\ F[2].s
        /\ F[3].paused /\ F[3].generation /\ ~F[3].p /\ ~F[3].s
        /\ F[4].paused /\ ~F[4].generation
        /\ answer.generations = 2

(***************************************************************************)
(* Random                                                                  *)
(***************************************************************************)
\* C31: rangeUint(min, max) returns a value v with min <= v <= max for
\* every min <= max, min = 0 with max = 2^32 - 1 and min = max included; for
\* max < min it raises a domain error and leaves the state of the generator
\* as it was.
C31_RangeUint ==
    probe.fn = "rangeUint" =>
        /\ probe.phase = "returned" =>
               /\ ~LessBytes(probe.max, probe.min)
               /\ ~LessBytes(answer.value, probe.min)
               /\ ~LessBytes(probe.max, answer.value)
        /\ probe.phase = "domain_error" =>
               /\ LessBytes(probe.max, probe.min)
               /\ probe.state = answer.seed /\ answer.draws = 0
        /\ LessBytes(probe.max, probe.min) => probe.phase \in {"call", "domain_error"}
        /\ probe.min = probe.max => probe.phase \in {"call", "returned"} /\ answer.draws = 0

\* rangeUint(0, 2^31) returning after draws that were rejected
C31_Witness ==
    /\ probe.fn = "rangeUint" /\ probe.phase = "returned"
    /\ probe.min = <<0, 0, 0, 0>> /\ probe.max = <<0, 0, 0, 128>>
    /\ answer.draws >= 2 /\ probe.state /= answer.seed

\* rangeUint(0, 2^32 - 1) returning a value above 2^31
C31_WitnessFull ==
    /\ probe.fn = "rangeUint" /\ probe.phase = "returned"
    /\ probe.min = <<0, 0, 0, 0>> /\ probe.max = <<255, 255, 255, 255>>
    /\ answer.value[4] >= 128

\* C32: rangeInt(min, max) returns a value v with min <= v <= max for every
\* pair of int32_t with min <= max, the pairs whose difference max - min does
\* not fit in an int32_t included, the arithmetic being taken modulo 2^32.
C32_RangeInt ==
    probe.fn = "rangeInt" =>
        /\ probe.phase = "returned" =>
               /\ ~SignedLess(probe.max, probe.min)
               /\ ~SignedLess(answer.value, probe.min)
               /\ ~SignedLess(probe.max, answer.value)
        /\ probe.phase = "domain_error" => SignedLess(probe.max, probe.min)
        /\ SignedLess(probe.max, probe.min) => probe.phase \in {"call", "domain_error"}

\* rangeInt(INT32_MIN, INT32_MAX) returning a negative value
C32_Witness ==
    /\ probe.fn = "rangeInt" /\ probe.phase = "returned"
    /\ probe.min = <<0, 0, 0, 128>> /\ probe.max = <<255, 255, 255, 127>>
    /\ answer.draws >= 1 /\ answer.value[4] >= 128

(***************************************************************************)
(* Quit during a frame                                                     *)
(***************************************************************************)
\* C33: when a quit event is drained in the input step of a frame, the
\* terminate flag is set and the frame is still completed: the buttons are
\* updated, OnUserUpdate is called and the present step is made once in that
\* frame as in every frame before it, and no further frame begins.
C33_QuitCompletesFrame ==
    /\ [](obs.loop_quit =>
            /\ end /\ frame > 0
            /\ pc \in {"events", "update_mouse", "update_keyboard", "update", "display",
                       "finalize", "returned"}
            /\ pc \in {"finalize", "returned"} =>
                   /\ AllUpdated(1)
                   /\ obs.debounce = frame
                   /\ obs.OnUserUpdate = frame
                   /\ obs.present = frame)
    /\ [][(obs.loop_quit /\ runs' = runs) =>
            /\ frame' = frame
            /\ obs'.debounce <= frame
            /\ obs'.OnUserUpdate <= frame
            /\ obs'.present <= frame]_vars

\* a run whose second frame drained a quit event and was updated and
\* presented without failure
C33_Witness ==
    /\ pc = "returned" /\ obs.loop_quit /\ frame = 2 /\ retval = EXIT_SUCCESS
    /\ ~obs.update_threw /\ ~obs.update_stop /\ ~obs.present_failed
    /\ obs.OnUserUpdate = 2 /\ obs.present = 2 /\ obs.debounce = 2

(***************************************************************************)
(* Mouse position                                                          *)
(***************************************************************************)
\* C34: whenever GetMousePos returns true on a ready engine, the position
\* written to the output has x < GetWidth() and y < GetHeight(), so it indexes
\* the raster without out_of_range.
C34_MouseInsideRaster ==
    (init /\ last_call.op = "GetMousePos" /\ last_call.ret = 1) =>
        /\ last_call.has_output
        /\ last_call.pos[1] >= 0 /\ last_call.pos[1] < GetWidth
        /\ last_call.pos[2] >= 0 /\ last_call.pos[2] < GetHeight
        /\ InRaster(last_call.pos)
        /\ ~GetPixel(last_call.pos, TRUE).raises
        /\ ~SetPixelEffect(last_call.pos, <<0, 0, 0>>).raises

\* the cursor on the last pixel of a 320 x 240 window of pixel size 20
C34_Witness ==
    /\ init /\ pixel_size = 20 /\ last_call.op = "GetMousePos" /\ last_call.ret = 1
    /\ last_call.args = <<319, 239, 0>> /\ last_call.pos = <<15, 11>>

(***************************************************************************)
(* The raster buffer                                                       *)
(***************************************************************************)
\* C35: across any sequence of Construct calls followed by the destruction
\* of the singleton at exit, the buffer of the raster is freed at most once
\* per allocation (no free of a block that is not live), and the raster is
\* read or written only while its buffer is live.
C35_RasterFreedOnce ==
    /\ [][(ExitStep \/ (ConstructStep /\ init)) => ~DoubleFree]_vars
    /\ [](pc /= "aborted")
    /\ [](init => data.ptr \in heap)

\* C36: move-assigning a matrix onto a target that owns a buffer, the target
\* itself included, leaves no allocated buffer without an owner: the buffer
\* the target had is freed, and after the assignment every live buffer is
\* owned by exactly one matrix.
C36_MoveAssignFrees ==
    [][(MoveStep /\ answer'.last.op = "move assign"
                 /\ probe.objs[answer'.last.target].ptr /= 0) =>
         LET t == answer'.last.target
             s == answer'.last.source
         IN  /\ t /= s => probe.objs[t].ptr \notin DOMAIN probe'.heap
             /\ \A p \in DOMAIN probe'.heap :
                    Cardinality({o \in probe'.live : probe'.objs[o].ptr = p}) = 1]_vars

(***************************************************************************)
(* Stale events                                                            *)
(***************************************************************************)
\* C37: over any sequence of runs on the same constructed engine, a button
\* is reported with down = true in a frame only if the most recent hardware
\* event of that button, the events dropped by the purge before the loop
\* included, was a down event.
C37_DownFollowsHardware ==
    answer.reported => (probe.key.down => answer.last_down)

(***************************************************************************)
(* Allocation size                                                         *)
(***************************************************************************)
\* C38: for every rows and cols of 32 bits the constructor allocates room
\* for rows x cols elements, the count not being reduced modulo 2^32, so that
\* every access that passes the bounds check addresses an element inside the
\* buffer allocated.
C38_AllocHoldsAll ==
    /\ Wide(probe.alloc) = Mul64(Wide(ToBytes(probe.rows)), Wide(ToBytes(probe.cols)))
    /\ (answer.called /\ ~answer.raises) => InsideBuffer

(***************************************************************************)
(* The Game of Life demo                                                   *)
(***************************************************************************)
\* the offsets of the eight neighbours whose cell of the grid is alive
LivingNeighbours(grid, pos) ==
    Cardinality({d \in ((-1 .. 1) \X (-1 .. 1)) \ {<<0, 0>>} :
                     grid[wrap(<<pos[1] + d[1], pos[2] + d[2]>>)]})

\* the cell of the generation that follows grid
Conway(grid, pos) ==
    \/ LivingNeighbours(grid, pos) = 3
    \/ LivingNeighbours(grid, pos) = 2 /\ grid[pos]

\* C39: in the Game of Life demo, after OnUserCreate has set the grid and
\* after every OnUserUpdate (generation, toggle of a cell, glider, in any
\* order), the pixel of every raster position is the ALIVE colour if and only
\* if current holds true there, and a generation is computed from the grid of
\* the generation before it only.
C39_GridMatchesRaster ==
    /\ probe.state \in {"running", "stopped"} =>
           \A pos \in LifePositions :
               /\ pos \in DOMAIN pixels /\ pos \in DOMAIN probe.current
               /\ pixels[pos] \in {ColorToU32(ALIVE), ColorToU32(DEAD)}
               /\ (pixels[pos] = ColorToU32(ALIVE)) <=> probe.current[pos]
    /\ answer.generation =>
           answer.after = [pos \in LifePositions |-> Conway(answer.before, pos)]

\* a second frame that computed a generation in which a cell died, a cell
\* was born and a living cell with two neighbours survived, toggled a cell
\* and spawned a glider
C39_Witness ==
    /\ answer.frames = 2 /\ answer.generation /\ answer.toggled /\ answer.spawned
    /\ \E pos \in LifePositions : answer.before[pos] /\ ~answer.after[pos]
    /\ \E pos \in LifePositions : ~answer.before[pos] /\ answer.after[pos]
    /\ \E pos \in LifePositions :
           answer.before[pos] /\ LivingNeighbours(answer.before, pos) = 2
    /\ \E pos \in LifePositions : probe.current[pos]
    /\ \E pos \in LifePositions : ~probe.current[pos]

(***************************************************************************)
(* Shapes                                                                  *)
(***************************************************************************)
\* the pixels of the sides of the rectangle spanned by top_left and
\* bottom_right, both included
Perimeter(r) ==
    {pos \in (r.top_left[1] .. r.bottom_right[1]) \X (r.top_left[2] .. r.bottom_right[2]) :
         \/ pos[1] \in {r.top_left[1], r.bottom_right[1]}
         \/ pos[2] \in {r.top_left[2], r.bottom_right[2]}}

\* C40: for a Rectangle whose corners lie inside the raster, Draw sets to
\* the outline colour exactly the pixels of the perimeter of the rectangle
\* spanned by top_left and bottom_right, both included and the four corners
\* with them, and no other pixel.
C40_DrawsPerimeter ==
    (init /\ answer.drawn) =>
        \A pos \in (0 .. (GetWidth - 1)) \X (0 .. (GetHeight - 1)) :
            IF pos \in Perimeter(probe)
            THEN pos \in DOMAIN pixels /\ pixels[pos] = ColorToU32(probe.outline)
            ELSE /\ pos \in DOMAIN pixels <=> pos \in DOMAIN answer.before
                 /\ pos \in DOMAIN pixels => pixels[pos] = answer.before[pos]

====
